---- MODULE Spec2Model ----
(***************************************************************************)
(* Model of the retrieval core of the Math Professor Agent:                *)
(*   VectorStore, EmbeddingService and RAGService                          *)
(*   (src/math-routing-agent/src/constants.tsx, lines 191-437),            *)
(*   chunkDocument (the same file, lines 119-159) and the chunk assembler  *)
(*   of the chunking service it calls; of retryWithBackoff and the calls   *)
(*   of the generative model (src/math-routing-agent/src/services/         *)
(*   geminiService.ts); and of the handlers of the chat page               *)
(*   (src/math-routing-agent/src/App.tsx, lines 237-559).                  *)
(*                                                                         *)
(* Texts.  A text is modelled by the token sequence that                   *)
(* text.toLowerCase().split(/\s+/) yields, each token a small integer:     *)
(*   0 = ""  (the token the split returns for the empty string)            *)
(*   1 = "2" (a canonical array index: Object.values lists such keys       *)
(*            first, in ascending numeric order)                           *)
(*   2 = "x"   3 = "y"                                                     *)
(* and, for the Pythagorean scenario of the specification,                 *)
(*   11 = "what"  12 = "is"  13 = "the"  14 = "pythagorean"                *)
(*   15 = "theorem?"  16 = "theorem"  17 = "states"  18 = "that"           *)
(*   19 = "a²"  20 = "+"  21 = "b²"  22 = "="  23 = "c²."  24 = "this"     *)
(*   25 = "applies"  26 = "to"  27 = "right"  28 = "triangles."            *)
(*   29 = "meanwhile,"  30 = "calculus"  31 = "introduces"                 *)
(*   32 = "derivatives."                                                   *)
(* The fixed texts of the chat page are one token each (40 to 52), and so  *)
(* are the answers of the keyword knowledge base (61 to 63).               *)
(*                                                                         *)
(* Numbers.  A JavaScript number is a binary floating-point value; every   *)
(* arithmetic operation rounds its exact result to the nearest             *)
(* representable value (ties to even).  The model keeps that semantics     *)
(* with a mantissa of FloatBits bits instead of 53, so that the products   *)
(* stay inside TLC's integers.  A float is [m, e], denoting m * 2^e, with  *)
(* m = 0 or 2^(FloatBits-1) <= |m| < 2^FloatBits.                          *)
(***************************************************************************)
EXTENDS Integers, Sequences, FiniteSets, TLC

VARIABLES
    localStorage,   \* the item stored under VectorStore.STORAGE_KEY
    call,           \* the last operation called, its arguments and what it returned
    pending,        \* the asynchronous calls that are suspended at an await, in
                    \* the order they were made
    history,        \* the operations that have returned, in the order they returned
    messages,       \* App: the chat, the value of the `messages` state
    appState,       \* App: the value of the `appState` state
    now             \* the value Date.now() returns

vars == <<localStorage, call, pending, history, messages, appState, now>>

----------------------------------------------------------------------------
(* Bounds of the model *)

FloatBits == 9      \* mantissa width of the model's floating-point numbers
MaxStore == 2       \* the store holds at most this many chunks
MaxTopK == 3        \* topK ranges over 0..MaxTopK
MaxDim == 3         \* cosineSimilarity is applied to vectors of at most this length
MaxCalls == 3       \* operations called in one run of overlapping calls
MaxChunks == 2      \* chunks of one chunking response in such a run
MaxUnits == 3       \* semantic units of a document handed to the chunk assembler
MaxAttempts == 3    \* maxRetries ranges over 1..MaxAttempts
MaxHandlers == 3    \* handlers of the chat page called in one run
MaxMessages == 4    \* the chat holds at most this many messages

DefaultDim == 100   \* new Array(100).fill(0)

DefaultMaxRetries == 3          \* maxRetries: number = 3
DefaultInitialDelay == 1000     \* initialDelay: number = 1000
RetrieveTopK == 3               \* RAGService.retrieveChunks(text, 3)

----------------------------------------------------------------------------
(* Floating-point arithmetic: round to nearest, ties to even *)

Zero == [m |-> 0, e |-> 0]

Min(a, b) == IF a <= b THEN a ELSE b

Abs(n) == IF n < 0 THEN -n ELSE n

RECURSIVE BitLen(_)
BitLen(n) == IF n = 0 THEN 0 ELSE 1 + BitLen(n \div 2)

\* the float nearest to n * 2^e, for an integer n >= 0
RoundNat(n, e) ==
    LET s == BitLen(n) - FloatBits IN
    IF n = 0 THEN Zero
    ELSE IF s <= 0 THEN [m |-> n * 2^(-s), e |-> e + s]
    ELSE LET q == n \div 2^s
             r == n % 2^s
             half == 2^(s - 1)
             up == r > half \/ (r = half /\ q % 2 = 1)
             q2 == IF up THEN q + 1 ELSE q
         IN  IF q2 = 2^FloatBits
             THEN [m |-> 2^(FloatBits - 1), e |-> e + s + 1]
             ELSE [m |-> q2, e |-> e + s]

Round(n, e) ==
    IF n < 0 THEN LET p == RoundNat(-n, e) IN [m |-> -p.m, e |-> p.e]
    ELSE RoundNat(n, e)

FromInt(n) == Round(n, 0)

FMul(a, b) == Round(a.m * b.m, a.e + b.e)

FAdd(a, b) ==
    IF a.m = 0 THEN b
    ELSE IF b.m = 0 THEN a
    ELSE LET e == Min(a.e, b.e)
         IN  Round(a.m * 2^(a.e - e) + b.m * 2^(b.e - e), e)

\* a / b for b # 0: the quotient to FloatBits + 3 bits and a sticky bit, rounded once
FDiv(a, b) ==
    LET k == FloatBits + 2
        n == Abs(a.m) * 2^k
        d == Abs(b.m)
        q == n \div d
        sticky == IF n % d = 0 THEN 0 ELSE 1
        sign == IF (a.m < 0) = (b.m < 0) THEN 1 ELSE -1
    IN  Round(sign * (2 * q + sticky), a.e - b.e - k - 1)

RECURSIVE IsqrtBetween(_, _, _)
\* the largest s in lo..hi with s * s <= n
IsqrtBetween(n, lo, hi) ==
    IF lo = hi THEN lo
    ELSE LET mid == (lo + hi + 1) \div 2
         IN  IF mid * mid <= n THEN IsqrtBetween(n, mid, hi)
             ELSE IsqrtBetween(n, lo, mid - 1)

\* Math.sqrt(a) for a >= 0, correctly rounded
FSqrt(a) ==
    IF a.m = 0 THEN Zero
    ELSE LET k0 == FloatBits + 4
             k == IF (a.e - k0) % 2 = 0 THEN k0 ELSE k0 + 1
             n == a.m * 2^k
             s == IsqrtBetween(n, 0, 2^(FloatBits + 3))
             sticky == IF s * s = n THEN 0 ELSE 1
         IN  Round(2 * s + sticky, ((a.e - k) \div 2) - 1)

\* a < b
FLess(a, b) ==
    LET e == Min(a.e, b.e)
    IN  a.m * 2^(a.e - e) < b.m * 2^(b.e - e)

----------------------------------------------------------------------------
(* Input domains *)

EmptyWord == 0

\* tokens that are canonical array indices ("2"): Object.values lists them first
IndexWords == {1}

Docs == {"a.txt", "b.txt"}

\* texts of the chunks a chunking response may carry
ChunkTexts == {<<2>>, <<2, 3>>, <<2, 2, 1>>, <<3, 3, 2>>}

\* query texts; <<>> is the empty query
Queries == {<<>>, <<3>>, <<2, 3>>}

TopKs == 0..MaxTopK

\* "What is the Pythagorean theorem?"
PythagoreanQuery == <<11, 12, 13, 14, 15>>

\* "The Pythagorean theorem states that a² + b² = c². This theorem applies to
\* right triangles."
TheoremText == <<13, 14, 16, 17, 18, 19, 20, 21, 22, 23, 24, 16, 25, 26, 27, 28>>

\* "Meanwhile, calculus introduces derivatives."
CalculusText == <<29, 30, 31, 32>>

\* the calculus chunk alone, or behind the overlap copied from the theorem chunk
\* (overlap_tokens = 150 covers the whole of that chunk)
ScenarioChunkTexts == {TheoremText, CalculusText, TheoremText \o CalculusText}

ScenarioQueries == {PythagoreanQuery, <<30>>}

----------------------------------------------------------------------------
(* EmbeddingService *)

Range(s) == {s[i] : i \in 1..Len(s)}

\* text.toLowerCase().split(/\s+/): the empty string splits into one empty token
Split(text) == IF text = <<>> THEN <<EmptyWord>> ELSE text

Count(words, w) == Cardinality({i \in 1..Len(words) : words[i] = w})

RECURSIVE InsertionKeys(_, _)
\* the distinct tokens among the first n, in the order wordFreq[word] was first set
InsertionKeys(words, n) ==
    IF n = 0 THEN <<>>
    ELSE LET keys == InsertionKeys(words, n - 1)
         IN  IF words[n] \in Range(keys) THEN keys ELSE Append(keys, words[n])

RECURSIVE Ascending(_)
\* the numbers of a set, in ascending order
Ascending(S) ==
    IF S = {} THEN <<>>
    ELSE LET least == CHOOSE x \in S : \A y \in S : x <= y
         IN  <<least>> \o Ascending(S \ {least})

IsIndexKey(w) == w \in IndexWords

IsStringKey(w) == w \notin IndexWords

\* the keys of wordFreq in the order Object.values visits them: array indices
\* in ascending order, then the other keys in insertion order
ObjectKeys(words) ==
    LET keys == InsertionKeys(words, Len(words))
    IN  Ascending({k \in Range(keys) : IsIndexKey(k)}) \o SelectSeq(keys, IsStringKey)

\* Object.values(wordFreq)
WordFreqValues(words) ==
    LET keys == ObjectKeys(words)
    IN  [i \in 1..Len(keys) |-> Count(words, keys[i])]

RECURSIVE SumSquares(_, _)
\* vector.reduce((sum, val) => sum + val * val, 0), from index i on
SumSquares(vector, i) ==
    IF i = 0 THEN Zero
    ELSE FAdd(SumSquares(vector, i - 1), FMul(vector[i], vector[i]))

GenerateEmbedding(text) ==
    LET counts == WordFreqValues(Split(text))
        vector == [i \in 1..Len(counts) |-> FromInt(counts[i])]
        magnitude == FSqrt(SumSquares(vector, Len(vector)))
    IN  IF magnitude.m > 0
        THEN [i \in 1..Len(vector) |-> FDiv(vector[i], magnitude)]
        ELSE [i \in 1..DefaultDim |-> Zero]

RECURSIVE DotProduct(_, _, _)
\* the value of the accumulator after i rounds of the loop
DotProduct(vec1, vec2, i) ==
    IF i = 0 THEN Zero
    ELSE FAdd(DotProduct(vec1, vec2, i - 1), FMul(vec1[i], vec2[i]))

CosineSimilarity(vec1, vec2) ==
    IF Len(vec1) # Len(vec2) THEN Zero
    ELSE LET n == Len(vec1)
             dotProduct == DotProduct(vec1, vec2, n)
             mag1 == DotProduct(vec1, vec1, n)
             mag2 == DotProduct(vec2, vec2, n)
             magnitude == FMul(FSqrt(mag1), FSqrt(mag2))
         IN  IF magnitude.m > 0 THEN FDiv(dotProduct, magnitude) ELSE Zero

\* Both functions are pure, and every text the operations below pass to them
\* is one of the input domains: their values are tabulated and looked up
\* (f @@ g makes TLC enumerate the table once instead of evaluating the
\* function at every application).
InputTexts == ChunkTexts \cup Queries \cup ScenarioChunkTexts \cup ScenarioQueries

EmbeddingTable ==
    [text \in InputTexts |-> GenerateEmbedding(text)] @@ [text \in {} |-> <<>>]

EmbeddingVectors == {EmbeddingTable[text] : text \in InputTexts}

SimilarityTable ==
    [pair \in EmbeddingVectors \X EmbeddingVectors |->
        CosineSimilarity(pair[1], pair[2])] @@ [pair \in {} |-> Zero]

\* await EmbeddingService.generateEmbedding(text)
EmbeddingOf(text) == EmbeddingTable[text]

\* EmbeddingService.cosineSimilarity(vec1, vec2) on two embeddings
SimilarityOf(vec1, vec2) == SimilarityTable[<<vec1, vec2>>]

----------------------------------------------------------------------------
(* VectorStore *)

\* localStorage.getItem returns null when no item is stored under the key
Null == [item |-> FALSE, value |-> <<>>]

\* the chunk list that JSON.stringify wrote and JSON.parse reads back: strings,
\* finite numbers and arrays survive the round trip unchanged, a property whose
\* value is undefined is left out and reads as undefined again
Item(chunks) == [item |-> TRUE, value |-> chunks]

Undefined == [has |-> FALSE, vec |-> <<>>]

Embedding(vec) == [has |-> TRUE, vec |-> vec]

\* VectorStore.getChunks
GetChunks(storage) == IF ~storage.item THEN <<>> ELSE storage.value

\* chunks.map(chunk => ({...chunk, documentName, uploadedAt})); the time stamp is
\* not modelled
WithDocumentName(chunks, documentName) ==
    [i \in 1..Len(chunks) |-> [chunks[i] EXCEPT !.documentName = documentName]]

\* mutant: setItem writes the new chunks only, the existing ones are lost
StoreChunksItemOverwriting(storage, chunks, documentName) ==
    Item(WithDocumentName(chunks, documentName))

\* mutant: the write is cut short behind the first chunk of the document
StoreChunksItemFirstChunk(storage, chunks, documentName) ==
    Item(GetChunks(storage)
            \o SubSeq(WithDocumentName(chunks, documentName), 1, Min(1, Len(chunks))))

\* mutant: [...storedChunks, ...existing]
StoreChunksItemPrepending(storage, chunks, documentName) ==
    Item(WithDocumentName(chunks, documentName) \o GetChunks(storage))

\* mutant: [...existing, ...chunks].map(chunk => ({...chunk, documentName}))
StoreChunksItemRenamingAll(storage, chunks, documentName) ==
    Item(WithDocumentName(GetChunks(storage) \o chunks, documentName))

\* VectorStore.storeChunks: the item written by localStorage.setItem
StoreChunksItem(storage, chunks, documentName) ==
    Item(GetChunks(storage) \o WithDocumentName(chunks, documentName))

----------------------------------------------------------------------------
(* RAGService.retrieveChunks *)

EmptyResult == [chunks |-> <<>>, context |-> <<>>, totalChunks |-> 0]

\* chunk.embedding ? cosineSimilarity(queryEmbedding, chunk.embedding) : 0
ChunkSimilarity(queryEmbedding, chunk) ==
    IF chunk.embedding.has
    THEN SimilarityOf(queryEmbedding, chunk.embedding.vec)
    ELSE Zero

HasEmbedding(chunk) == chunk.embedding.has

\* mutant: chunks without embedding are filtered out before scoring
ChunksWithSimilarityFiltered(allChunks, queryEmbedding) ==
    LET scored == SelectSeq(allChunks, HasEmbedding)
    IN  [i \in 1..Len(scored) |->
            [chunk |-> scored[i],
             similarity |-> SimilarityOf(queryEmbedding, scored[i].embedding.vec)]]

ChunksWithSimilarity(allChunks, queryEmbedding) ==
    [i \in 1..Len(allChunks) |->
        [chunk |-> allChunks[i],
         similarity |-> ChunkSimilarity(queryEmbedding, allChunks[i])]]

\* mutant: a comparator that also puts b first on a tie
CompareNotNegative(a, b) == ~FLess(b.similarity, a.similarity)

\* the comparator (a, b) => b.similarity - a.similarity is positive: b goes first
ComparePositive(a, b) == FLess(a.similarity, b.similarity)

RECURSIVE InsertSorted(_, _)
\* item goes behind every element the comparator does not put behind it
InsertSorted(sorted, item) ==
    IF sorted = <<>> THEN <<item>>
    ELSE LET last == sorted[Len(sorted)]
         IN  IF ComparePositive(last, item)
             THEN Append(InsertSorted(SubSeq(sorted, 1, Len(sorted) - 1), item), last)
             ELSE Append(sorted, item)

RECURSIVE SortFirst(_, _)
\* Array.prototype.sort, which is stable, on the first n items
SortFirst(items, n) ==
    IF n = 0 THEN <<>> ELSE InsertSorted(SortFirst(items, n - 1), items[n])

SortBySimilarity(items) == SortFirst(items, Len(items))

\* mutant: slice(0, end + 1)
SliceToInclusive(items, end) == SubSeq(items, 1, Min(end + 1, Len(items)))

\* mutant: slice(-end), the last `end` items
SliceLast(items, end) ==
    IF end = 0 THEN items
    ELSE SubSeq(items, Len(items) - Min(end, Len(items)) + 1, Len(items))

\* items.slice(0, end) for end >= 0
SliceTo(items, end) == SubSeq(items, 1, Min(end, Len(items)))

Label(n) == [kind |-> "label", n |-> n]      \* "[Chunk n]\n"
Word(w) == [kind |-> "text", n |-> w]        \* a token of a chunk's text
Separator == [kind |-> "separator", n |-> 0] \* "\n\n"

\* mutant: `[Chunk ${index}]\n${chunk.text}`, labels counted from 0
ContextEntryFromZero(chunk, index) ==
    <<Label(index)>> \o [i \in 1..Len(chunk.text) |-> Word(chunk.text[i])]

\* `[Chunk ${index + 1}]\n${chunk.text}`
ContextEntry(chunk, index) ==
    <<Label(index + 1)>> \o [i \in 1..Len(chunk.text) |-> Word(chunk.text[i])]

RECURSIVE JoinFirst(_, _)
\* topChunks.map(...).join('\n\n'), on the first n chunks
JoinFirst(topChunks, n) ==
    IF n = 0 THEN <<>>
    ELSE IF n = 1 THEN ContextEntry(topChunks[1], 0)
    ELSE JoinFirst(topChunks, n - 1) \o <<Separator>>
            \o ContextEntry(topChunks[n], n - 1)

Context(topChunks) == JoinFirst(topChunks, Len(topChunks))

\* mutant: the chunks of similarity 0 are left out of the result
TopChunksAboveZero(allChunks, query, topK) ==
    LET IsAboveZero(scored) == FLess(Zero, scored.similarity)
        sorted == SortBySimilarity(
                      SelectSeq(ChunksWithSimilarity(allChunks, EmbeddingOf(query)),
                                IsAboveZero))
        top == SliceTo(sorted, topK)
    IN  [i \in 1..Len(top) |-> top[i].chunk]

TopChunks(allChunks, query, topK) ==
    LET sorted == SortBySimilarity(
                      ChunksWithSimilarity(allChunks, EmbeddingOf(query)))
        top == SliceTo(sorted, topK)
    IN  [i \in 1..Len(top) |-> top[i].chunk]

\* mutant: an empty store is reported as an error
RetrieveResultRaising(allChunks, query, topK) ==
    IF Len(allChunks) = 0 THEN [error |-> "no chunks stored"]
    ELSE LET topChunks == TopChunks(allChunks, query, topK)
         IN  [chunks |-> topChunks,
              context |-> Context(topChunks),
              totalChunks |-> Len(allChunks)]

\* mutant: totalChunks counts the chunks returned
RetrieveResultCountsReturned(allChunks, query, topK) ==
    IF Len(allChunks) = 0 THEN EmptyResult
    ELSE LET topChunks == TopChunks(allChunks, query, topK)
         IN  [chunks |-> topChunks,
              context |-> Context(topChunks),
              totalChunks |-> Len(topChunks)]

RetrieveResult(allChunks, query, topK) ==
    IF Len(allChunks) = 0 THEN EmptyResult
    ELSE LET topChunks == TopChunks(allChunks, query, topK)
         IN  [chunks |-> topChunks,
              context |-> Context(topChunks),
              totalChunks |-> Len(allChunks)]

----------------------------------------------------------------------------
(* The chunking service *)

\* a chunk as the chunking API returns it; chunk_id is the sequence number that
\* ends `${document_id}_chunk_${n}`
NewChunk(n, text) ==
    [chunk_id |-> n, text |-> text, embedding |-> Undefined, documentName |-> ""]

\* the chunk lists of at most n chunks with texts of T
ChunkLists(T, n) ==
    UNION {{[i \in 1..len |-> NewChunk(i, f[i])] : f \in [1..len -> T]} : len \in 0..n}

----------------------------------------------------------------------------
(* Operations *)

Init ==
    /\ localStorage = Null
    /\ call = [name |-> "none"]
    /\ messages = <<>>
    /\ appState = "idle"
    /\ now = 0
    /\ pending = <<>>
    /\ history = <<>>

\* RAGService.processDocument when chunkDocument answers success with `chunks`
ProcessDocument(T) ==
    \E documentName \in Docs :
    \E chunks \in ChunkLists(T, MaxStore - Len(GetChunks(localStorage))) :
        LET chunksWithEmbeddings ==
                [i \in 1..Len(chunks) |->
                    [chunks[i] EXCEPT
                        !.embedding = Embedding(EmbeddingOf(chunks[i].text)),
                        !.documentName = documentName]]
        IN  /\ localStorage' =
                    StoreChunksItem(localStorage, chunksWithEmbeddings, documentName)
            /\ call' = [name |-> "processDocument", documentName |-> documentName,
                        threw |-> FALSE,
                        result |-> [chunks |-> chunksWithEmbeddings, stored |-> TRUE]]
            /\ UNCHANGED <<pending, history, messages, appState, now>>

\* RAGService.processDocument when chunkDocument answers success: false (the
\* request failed, the server answered an error) or answers without chunks
ProcessDocumentFails ==
    \E documentName \in Docs :
        /\ call' = [name |-> "processDocument", documentName |-> documentName,
                    threw |-> TRUE]
        /\ UNCHANGED <<localStorage, pending, history, messages, appState, now>>

\* VectorStore.storeChunks(chunks: Chunk[], documentName)
StoreChunks(T) ==
    \E documentName \in Docs :
    \E chunks \in ChunkLists(T, MaxStore - Len(GetChunks(localStorage))) :
        /\ localStorage' = StoreChunksItem(localStorage, chunks, documentName)
        /\ call' = [name |-> "storeChunks", documentName |-> documentName]
        /\ UNCHANGED <<pending, history, messages, appState, now>>

\* RAGService.retrieveChunks(query, topK)
RetrieveChunks(Q) ==
    \E query \in Q, topK \in TopKs :
        /\ call' = [name |-> "retrieveChunks", query |-> query, topK |-> topK,
                    result |-> RetrieveResult(GetChunks(localStorage), query, topK)]
        /\ UNCHANGED <<localStorage, pending, history, messages, appState, now>>

\* RAGService.clearStore
ClearStore ==
    /\ localStorage' = Null
    /\ call' = [name |-> "clearStore"]
    /\ UNCHANGED <<pending, history, messages, appState, now>>

Next ==
    \/ ProcessDocument(ChunkTexts)
    \/ ProcessDocumentFails
    \/ StoreChunks(ChunkTexts)
    \/ RetrieveChunks(Queries)
    \/ ClearStore

Spec == Init /\ [][Next]_vars

\* the same operations on the texts of the Pythagorean scenario
ScenarioNext ==
    \/ ProcessDocument(ScenarioChunkTexts)
    \/ ProcessDocumentFails
    \/ StoreChunks(ScenarioChunkTexts)
    \/ RetrieveChunks(ScenarioQueries)
    \/ ClearStore

ScenarioSpec == Init /\ [][ScenarioNext]_vars

----------------------------------------------------------------------------
(* Overlapping calls.  The operations of RAGService are async functions run by
   one event loop: a call runs without interruption up to its next await, and
   the steps of other calls can run while it is suspended there.
   processDocument is suspended at `await chunkDocument(...)` (the request to
   the chunking service) and at `await Promise.all(...)`; storeChunks has no
   await, so its read of the item and its write run in one step, and the
   awaits behind it wait for promises that are already resolved, which resume
   in the order they were queued: the call returns in the order it stored.
   retrieveChunks reads the store before its only await,
   `await EmbeddingService.generateEmbedding(query)`.  getStats and clearStore
   are synchronous. *)

\* texts of the chunks and of the queries of these runs
IngestTexts == {<<2, 3>>}

IngestQueries == {<<2, 3>>}

IngestTopKs == {1, MaxTopK}

\* the sequence without its p-th element
Remove(seq, p) == SubSeq(seq, 1, p - 1) \o SubSeq(seq, p + 1, Len(seq))

\* one more operation may be called
MayCall == Len(history) + Len(pending) < MaxCalls

\* processDocument(text, documentName) is called and runs up to
\* `await chunkDocument(...)`
ProcessDocumentCalled ==
    /\ MayCall
    /\ \E documentName \in Docs :
        pending' = Append(pending,
            [op |-> "processDocument", pc |-> "chunkDocument",
             documentName |-> documentName, began |-> Len(history)])
    /\ UNCHANGED <<localStorage, call, history, messages, appState, now>>

\* chunks.map(async (chunk) => ({...chunk, embedding, documentName, uploadedAt}))
ChunksWithEmbeddings(chunks, documentName) ==
    [i \in 1..Len(chunks) |->
        [chunks[i] EXCEPT !.embedding = Embedding(EmbeddingOf(chunks[i].text)),
                          !.documentName = documentName]]

\* chunkDocument resolves with success and chunks: the call runs on to
\* `await Promise.all(...)`
ChunkDocumentSucceeds ==
    \E p \in 1..Len(pending) :
        /\ pending[p].op = "processDocument" /\ pending[p].pc = "chunkDocument"
        /\ \E chunks \in ChunkLists(IngestTexts, MaxChunks) :
            pending' = [pending EXCEPT ![p] =
                [op |-> "processDocument", pc |-> "Promise.all",
                 documentName |-> pending[p].documentName,
                 began |-> pending[p].began,
                 chunksWithEmbeddings |->
                    ChunksWithEmbeddings(chunks, pending[p].documentName)]]
        /\ UNCHANGED <<localStorage, call, history, messages, appState, now>>

\* chunkDocument resolves with success: false or without chunks: the call throws
ChunkDocumentFails ==
    \E p \in 1..Len(pending) :
        /\ pending[p].op = "processDocument" /\ pending[p].pc = "chunkDocument"
        /\ call' = [name |-> "processDocument",
                    documentName |-> pending[p].documentName, threw |-> TRUE]
        /\ history' = Append(history,
                [op |-> "processDocument", began |-> pending[p].began,
                 documentName |-> pending[p].documentName,
                 threw |-> TRUE, stored |-> <<>>])
        /\ pending' = Remove(pending, p)
        /\ UNCHANGED <<localStorage, messages, appState, now>>

\* Promise.all resolves: VectorStore.storeChunks runs, and the call returns
StoreChunksReturns ==
    \E p \in 1..Len(pending) :
        /\ pending[p].op = "processDocument" /\ pending[p].pc = "Promise.all"
        /\ localStorage' = StoreChunksItem(localStorage,
                pending[p].chunksWithEmbeddings, pending[p].documentName)
        /\ call' = [name |-> "processDocument",
                    documentName |-> pending[p].documentName, threw |-> FALSE,
                    result |-> [chunks |-> pending[p].chunksWithEmbeddings,
                                stored |-> TRUE]]
        /\ history' = Append(history,
                [op |-> "processDocument", began |-> pending[p].began,
                 documentName |-> pending[p].documentName,
                 threw |-> FALSE, stored |-> pending[p].chunksWithEmbeddings])
        /\ pending' = Remove(pending, p)
        /\ UNCHANGED <<messages, appState, now>>

\* retrieveChunks(query, topK) is called on an empty store and returns
RetrieveChunksOnEmptyStore ==
    /\ MayCall
    /\ Len(GetChunks(localStorage)) = 0
    /\ \E query \in IngestQueries, topK \in IngestTopKs :
        call' = [name |-> "retrieveChunks", query |-> query, topK |-> topK,
                 allChunks |-> <<>>, result |-> EmptyResult]
    /\ history' = Append(history,
            [op |-> "retrieveChunks", began |-> Len(history), stored |-> <<>>])
    /\ UNCHANGED <<localStorage, pending, messages, appState, now>>

\* retrieveChunks(query, topK) is called, reads the store and runs up to
\* `await EmbeddingService.generateEmbedding(query)`
RetrieveChunksCalled ==
    /\ MayCall
    /\ Len(GetChunks(localStorage)) # 0
    /\ \E query \in IngestQueries, topK \in IngestTopKs :
        pending' = Append(pending,
            [op |-> "retrieveChunks", pc |-> "generateEmbedding",
             query |-> query, topK |-> topK,
             allChunks |-> GetChunks(localStorage), began |-> Len(history)])
    /\ UNCHANGED <<localStorage, call, history, messages, appState, now>>

\* the embedding of the query resolves: the call ranks allChunks and returns
RetrieveChunksReturns ==
    \E p \in 1..Len(pending) :
        /\ pending[p].op = "retrieveChunks"
        /\ call' = [name |-> "retrieveChunks", query |-> pending[p].query,
                    topK |-> pending[p].topK, allChunks |-> pending[p].allChunks,
                    result |-> RetrieveResult(pending[p].allChunks,
                                    pending[p].query, pending[p].topK)]
        /\ history' = Append(history,
                [op |-> "retrieveChunks", began |-> pending[p].began,
                 stored |-> <<>>])
        /\ pending' = Remove(pending, p)
        /\ UNCHANGED <<localStorage, messages, appState, now>>

\* mutant: only the item under EMBEDDINGS_KEY is removed
RemoveOtherItem(storage) == storage

\* localStorage.removeItem(this.STORAGE_KEY)
RemoveItem(storage) == Null

\* clearStore()
ClearStoreCalled ==
    /\ MayCall
    /\ localStorage' = RemoveItem(localStorage)
    /\ call' = [name |-> "clearStore"]
    /\ history' = Append(history,
            [op |-> "clearStore", began |-> Len(history), stored |-> <<>>])
    /\ UNCHANGED <<pending, messages, appState, now>>

IsTruthy(documentName) == documentName # ""

\* c.documentName
DocumentNameOf(chunk) == chunk.documentName

\* mutant: chunks.map(c => c.documentName).filter(Boolean), without the Set
DocumentsOfEveryChunk(chunks) ==
    SelectSeq([i \in 1..Len(chunks) |-> DocumentNameOf(chunks[i])], IsTruthy)

\* [...new Set(chunks.map(c => c.documentName).filter(Boolean))]: a Set lists
\* its values once, in the order they were first added
Documents(chunks) ==
    LET names == SelectSeq([i \in 1..Len(chunks) |-> DocumentNameOf(chunks[i])],
                           IsTruthy)
    IN  InsertionKeys(names, Len(names))

GetStatsResult(storage) ==
    [totalChunks |-> Len(GetChunks(storage)),
     documents |-> Documents(GetChunks(storage))]

\* getStats()
GetStatsCalled ==
    /\ MayCall
    /\ call' = [name |-> "getStats", result |-> GetStatsResult(localStorage)]
    /\ history' = Append(history,
            [op |-> "getStats", began |-> Len(history), stored |-> <<>>])
    /\ UNCHANGED <<localStorage, pending, messages, appState, now>>

ConcurrentNext ==
    \/ ProcessDocumentCalled
    \/ ChunkDocumentSucceeds
    \/ ChunkDocumentFails
    \/ StoreChunksReturns
    \/ RetrieveChunksOnEmptyStore
    \/ RetrieveChunksCalled
    \/ RetrieveChunksReturns
    \/ ClearStoreCalled
    \/ GetStatsCalled

ConcurrentSpec == Init /\ [][ConcurrentNext]_vars

----------------------------------------------------------------------------
(* The chunking service behind chunkDocument.  Its source (semantic_chunker.py
   and the /chunk endpoint) is not part of the sources modelled above; the
   Chunk Assembler is modelled from section 4.5 of the specification and its
   configuration check from section 7.  A document arrives as its semantic
   units, each unit the token counts of its sentences; the tokens of the
   document are numbered 1, 2, ... in reading order, and a text is the
   sequence of the numbers of its tokens. *)

\* sentences of one semantic unit, by token count
UnitShapes == {<<1>>, <<2>>, <<4>>, <<1, 2>>, <<2, 3>>, <<5>>}

\* the documents of at most MaxUnits semantic units; none for the empty text
UnitLists == UNION {[1..n -> UnitShapes] : n \in 0..MaxUnits}

\* {min_chunk_tokens, max_chunk_tokens, overlap_tokens} of a request
ChunkingOptions ==
    [min_chunk_tokens : {0, 2, 5}, max_chunk_tokens : {2, 4},
     overlap_tokens : {-1, 0, 1, 3}]

RECURSIVE Sum(_, _)
\* the sum of the first n numbers of a sequence
Sum(lengths, n) == IF n = 0 THEN 0 ELSE Sum(lengths, n - 1) + lengths[n]

RECURSIVE TokensBefore(_, _)
\* the number of tokens of the first u - 1 units
TokensBefore(units, u) ==
    IF u = 1 THEN 0
    ELSE TokensBefore(units, u - 1) + Sum(units[u - 1], Len(units[u - 1]))

\* the sentences of the u-th unit: unit_index (0-based) and tokens
SentencesOf(units, u) ==
    [k \in 1..Len(units[u]) |->
        [unit_index |-> u - 1,
         tokens |-> [t \in 1..units[u][k] |->
                        TokensBefore(units, u) + Sum(units[u], k - 1) + t]]]

RECURSIVE TokenCount(_, _)
\* the token count of the first n sentences of a list
TokenCount(sentences, n) ==
    IF n = 0 THEN 0 ELSE TokenCount(sentences, n - 1) + Len(sentences[n].tokens)

Tokens(sentences) == TokenCount(sentences, Len(sentences))

\* the number of leading sentences that fit into `room` tokens
Fitting(sentences, room) ==
    CHOOSE n \in 0..Len(sentences) :
        /\ TokenCount(sentences, n) <= room
        /\ n < Len(sentences) => TokenCount(sentences, n + 1) > room

\* a chunk before overlap and chunk_id: its own sentences, and sub_index (-1
\* for null)
Piece(sentences, sub_index) == [sentences |-> sentences, sub_index |-> sub_index]

RECURSIVE SubChunks(_, _, _)
\* step 3: a unit that alone exceeds max_chunk_tokens is split at sentence
\* boundaries into sub-chunks sub_index, sub_index + 1, ...; a sentence is
\* never split
SubChunks(sentences, max, sub_index) ==
    IF sentences = <<>> THEN <<>>
    ELSE LET fit == Fitting(sentences, max)
             n == IF fit = 0 THEN 1 ELSE fit
         IN  <<Piece(SubSeq(sentences, 1, n), sub_index)>>
                \o SubChunks(SubSeq(sentences, n + 1, Len(sentences)), max,
                             sub_index + 1)

\* the candidate chunk is closed: emitted, unless it is empty
Close(acc) ==
    IF acc.candidate = <<>> THEN acc
    ELSE [pieces |-> Append(acc.pieces, Piece(acc.candidate, -1)),
          candidate |-> <<>>]

\* steps 1 to 3 for one unit
AddUnit(acc, unit, options) ==
    LET max == options.max_chunk_tokens
        min == options.min_chunk_tokens
    IN  IF Tokens(unit) > max
        THEN [pieces |-> Close(acc).pieces \o SubChunks(unit, max, 0),
              candidate |-> <<>>]
        ELSE IF Tokens(acc.candidate) + Tokens(unit) <= max
        THEN [acc EXCEPT !.candidate = @ \o unit]
        ELSE IF Tokens(acc.candidate) >= min
        THEN [pieces |-> Close(acc).pieces, candidate |-> unit]
        ELSE LET n == Fitting(unit, max - Tokens(acc.candidate))
             IN  [pieces |-> Append(acc.pieces,
                        Piece(acc.candidate \o SubSeq(unit, 1, n), -1)),
                  candidate |-> SubSeq(unit, n + 1, Len(unit))]

RECURSIVE Walk(_, _, _)
\* steps 1 to 3 for the first n units
Walk(units, n, options) ==
    IF n = 0 THEN [pieces |-> <<>>, candidate |-> <<>>]
    ELSE AddUnit(Walk(units, n - 1, options), SentencesOf(units, n), options)

RECURSIVE OwnTokens(_, _)
\* the tokens of the first n sentences, in order
OwnTokens(sentences, n) ==
    IF n = 0 THEN <<>> ELSE OwnTokens(sentences, n - 1) \o sentences[n].tokens

\* the trailing n tokens of a text
Trailing(text, n) == SubSeq(text, Len(text) - Min(n, Len(text)) + 1, Len(text))

RECURSIVE Assembled(_, _, _)
\* steps 4 and 5 for the first n pieces: overlap, token_length, chunk_id
Assembled(pieces, n, options) ==
    IF n = 0 THEN <<>>
    ELSE LET before == Assembled(pieces, n - 1, options)
             own == OwnTokens(pieces[n].sentences, Len(pieces[n].sentences))
             text == IF n = 1 THEN own
                     ELSE Trailing(before[n - 1].text, options.overlap_tokens) \o own
         IN  Append(before,
                [chunk_id |-> n, text |-> text, token_length |-> Len(text),
                 start_char |-> own[1], end_char |-> own[Len(own)],
                 metadata |-> [unit_index |-> pieces[n].sentences[1].unit_index,
                               sub_index |-> pieces[n].sub_index]])

\* the Chunk Assembler
AssembleChunks(units, options) ==
    LET pieces == Close(Walk(units, Len(units), options)).pieces
    IN  Assembled(pieces, Len(pieces), options)

\* section 7: min_chunk_tokens > max_chunk_tokens or a negative overlap_tokens
\* is a malformed configuration
ValidConfiguration(options) ==
    /\ options.min_chunk_tokens <= options.max_chunk_tokens
    /\ options.overlap_tokens >= 0

\* the response of the chunking service to the request of chunkDocument: a
\* malformed configuration is rejected at entry, before any chunking
ServiceResponse(units, options) ==
    IF ~ValidConfiguration(options)
    THEN [ok |-> FALSE, body |-> [error |-> "configuration error"]]
    ELSE LET chunks == AssembleChunks(units, options)
         IN  [ok |-> TRUE,
              body |-> [success |-> TRUE, chunks |-> chunks,
                        total_chunks |-> Len(chunks)]]

\* mutant: response.ok is not looked at, the body of an error response is
\* returned as the data
ChunkDocumentResultIgnoringStatus(response) == response.body

\* chunkDocument behind `await fetch(...)`: a response that is not ok is thrown
\* as Error(errorData.error) and caught; otherwise the body is returned
ChunkDocumentResult(response) ==
    IF ~response.ok
    THEN [success |-> FALSE, error |-> response.body.error]
    ELSE response.body

\* chunkDocument is about to be called with a document and options
ChunkerInit ==
    /\ localStorage = Null
    /\ messages = <<>>
    /\ appState = "idle"
    /\ now = 0
    /\ pending = <<>>
    /\ history = <<>>
    /\ \E units \in UnitLists, options \in ChunkingOptions :
        call = [name |-> "calling", fn |-> "chunkDocument",
                units |-> units, options |-> options]

\* chunkDocument(text, options), the chunking service answers
ChunkDocumentCall ==
    /\ call.name = "calling" /\ call.fn = "chunkDocument"
    /\ call' = [name |-> "chunkDocument", units |-> call.units,
                options |-> call.options, answered |-> TRUE,
                result |-> ChunkDocumentResult(
                                ServiceResponse(call.units, call.options))]
    /\ UNCHANGED <<localStorage, pending, history, messages, appState, now>>

\* chunkDocument(text, options), fetch rejects: the error is caught
ChunkDocumentUnreachable ==
    /\ call.name = "calling" /\ call.fn = "chunkDocument"
    /\ call' = [name |-> "chunkDocument", units |-> call.units,
                options |-> call.options, answered |-> FALSE,
                result |-> [success |-> FALSE, error |-> "Failed to fetch"]]
    /\ UNCHANGED <<localStorage, pending, history, messages, appState, now>>

ChunkerNext == ChunkDocumentCall \/ ChunkDocumentUnreachable

ChunkerSpec == ChunkerInit /\ [][ChunkerNext]_vars

----------------------------------------------------------------------------
(* The scorer on its own: EmbeddingService called directly *)

Components == {FromInt(n) : n \in -1..2}

\* the vectors of at most MaxDim components
Vectors == UNION {[1..n -> Components] : n \in 0..MaxDim}

\* the scorer is about to be called with arguments drawn from the input domains
ScorerInit ==
    /\ localStorage = Null
    /\ messages = <<>>
    /\ appState = "idle"
    /\ now = 0
    /\ pending = <<>>
    /\ history = <<>>
    /\ \/ \E vec1 \in Vectors, vec2 \in Vectors :
            call = [name |-> "calling", fn |-> "cosineSimilarity",
                    vec1 |-> vec1, vec2 |-> vec2]
       \/ \E text \in ChunkTexts \cup Queries :
            call = [name |-> "calling", fn |-> "generateEmbedding", text |-> text]

CosineSimilarityCall ==
    /\ call.name = "calling" /\ call.fn = "cosineSimilarity"
    /\ call' = [name |-> "cosineSimilarity", vec1 |-> call.vec1, vec2 |-> call.vec2,
                result |-> CosineSimilarity(call.vec1, call.vec2)]
    /\ UNCHANGED <<localStorage, pending, history, messages, appState, now>>

GenerateEmbeddingCall ==
    /\ call.name = "calling" /\ call.fn = "generateEmbedding"
    /\ call' = [name |-> "generateEmbedding", text |-> call.text,
                result |-> GenerateEmbedding(call.text)]
    /\ UNCHANGED <<localStorage, pending, history, messages, appState, now>>

ScorerNext == CosineSimilarityCall \/ GenerateEmbeddingCall

ScorerSpec == ScorerInit /\ [][ScorerNext]_vars

----------------------------------------------------------------------------
(* retryWithBackoff (services/geminiService.ts).  fn is the request to the
   model; an attempt is the call fn() and the await of its promise.  Every
   caller passes fn only, so maxRetries and initialDelay have their defaults;
   the model also runs the function with other positive values. *)

\* the strings that error.message.includes(...) is asked about
Markers == {"503", "overloaded", "UNAVAILABLE", "429", "rate limit",
            "API key", "network", "fetch"}

\* the messages of the errors that fn rejects with, each with the markers that
\* occur in it (includes compares case-sensitively)
OccursIn ==
    [message \in {"503 Service Unavailable", "The model is overloaded.",
                  "UNAVAILABLE", "429 Too Many Requests", "rate limit exceeded",
                  "Rate Limit Exceeded", "API key not valid", "Failed to fetch"} |->
        CASE message = "503 Service Unavailable" -> {"503"}
          [] message = "The model is overloaded." -> {"overloaded"}
          [] message = "UNAVAILABLE" -> {"UNAVAILABLE"}
          [] message = "429 Too Many Requests" -> {"429"}
          [] message = "rate limit exceeded" -> {"rate limit"}
          [] message = "Rate Limit Exceeded" -> {}
          [] message = "API key not valid" -> {"API key"}
          [] message = "Failed to fetch" -> {"fetch"}]

ErrorMessages == DOMAIN OccursIn

\* an error object, and a rejection value that has no message
Error(message) == [hasMessage |-> TRUE, message |-> message]

NoMessage == [hasMessage |-> FALSE, message |-> ""]

Errors == {Error(message) : message \in ErrorMessages} \cup {NoMessage}

\* error?.message?.includes(marker)
Includes(error, marker) == error.hasMessage /\ marker \in OccursIn[error.message]

\* mutant: every error is retried
IsRetryableErrorAlways(error) == TRUE

IsRetryableError(error) ==
    \/ Includes(error, "503")
    \/ Includes(error, "overloaded")
    \/ Includes(error, "UNAVAILABLE")
    \/ Includes(error, "429")
    \/ Includes(error, "rate limit")

RECURSIVE Pow(_, _)
\* Math.pow(base, exponent) for an exponent 0, 1, 2, ...
Pow(base, exponent) == IF exponent = 0 THEN 1 ELSE base * Pow(base, exponent - 1)

\* initialDelay * Math.pow(2, attempt)
Delay(initialDelay, attempt) == initialDelay * Pow(2, attempt)

\* what one call of fn settles with
Resolved(value) == [ok |-> TRUE, value |-> value, error |-> NoMessage]

Rejected(error) == [ok |-> FALSE, value |-> "", error |-> error]

FnOutcomes == {Resolved(value) : value \in {"first", "second"}}
                \cup {Rejected(error) : error \in Errors}

InitialDelays == {DefaultInitialDelay, 250}

\* retryWithBackoff(fn, maxRetries, initialDelay) is called and calls fn; fn[k]
\* is what the k-th call of fn will settle with
RetryInit ==
    /\ localStorage = Null
    /\ pending = <<>>
    /\ history = <<>>
    /\ messages = <<>>
    /\ appState = "idle"
    /\ now = 0
    /\ \E maxRetries \in 1..MaxAttempts, initialDelay \in InitialDelays :
       \E fn \in [1..maxRetries -> FnOutcomes] :
            call = [name |-> "retryWithBackoff", maxRetries |-> maxRetries,
                    initialDelay |-> initialDelay, fn |-> fn,
                    attempt |-> 0, pc |-> "fn", calls |-> 1,
                    waits |-> <<>>, settled |-> <<>>]

\* `return await fn()`: the attempt succeeds
FnResolves ==
    /\ call.name = "retryWithBackoff" /\ call.pc = "fn"
    /\ call.fn[call.attempt + 1].ok
    /\ call' = [call EXCEPT !.pc = "returned",
                            !.settled = <<call.fn[call.attempt + 1]>>]
    /\ UNCHANGED <<localStorage, pending, history, messages, appState, now>>

\* the attempt fails and the error is thrown on
FnRejectsForGood ==
    /\ call.name = "retryWithBackoff" /\ call.pc = "fn"
    /\ ~call.fn[call.attempt + 1].ok
    /\ LET error == call.fn[call.attempt + 1].error
       IN  /\ ~IsRetryableError(error) \/ call.attempt = call.maxRetries - 1
           /\ call' = [call EXCEPT !.pc = "threw", !.settled = <<Rejected(error)>>]
    /\ UNCHANGED <<localStorage, pending, history, messages, appState, now>>

\* the attempt fails and the function waits: setTimeout(resolve, delay)
FnRejectsAndWaits ==
    /\ call.name = "retryWithBackoff" /\ call.pc = "fn"
    /\ ~call.fn[call.attempt + 1].ok
    /\ LET error == call.fn[call.attempt + 1].error
       IN  /\ ~(~IsRetryableError(error) \/ call.attempt = call.maxRetries - 1)
           /\ call' = [call EXCEPT
                        !.pc = "setTimeout",
                        !.waits = Append(call.waits,
                                    Delay(call.initialDelay, call.attempt))]
    /\ UNCHANGED <<localStorage, pending, history, messages, appState, now>>

\* the timer fires: attempt++, and fn is called again while attempt < maxRetries
TimerFires ==
    /\ call.name = "retryWithBackoff" /\ call.pc = "setTimeout"
    /\ call.attempt + 1 < call.maxRetries
    /\ call' = [call EXCEPT !.pc = "fn", !.attempt = call.attempt + 1,
                            !.calls = call.calls + 1]
    /\ UNCHANGED <<localStorage, pending, history, messages, appState, now>>

RetryNext == FnResolves \/ FnRejectsForGood \/ FnRejectsAndWaits \/ TimerFires

RetrySpec == RetryInit /\ [][RetryNext]_vars

\* every call of fn settles and every timer fires
FairRetrySpec == RetrySpec /\ WF_vars(RetryNext)

----------------------------------------------------------------------------
(* The chat page (App.tsx, the component of lines 237-559).  A handler is an
   async function run by the event loop of the page: it runs without
   interruption up to an await of the network or of the file reader, and the
   steps of other handlers can run while it is suspended there.  The awaits
   of RAGService.retrieveChunks, of Promise.all and of VectorStore.storeChunks
   wait for promises that are already resolved; their continuations run
   before the next answer of the network is handled, so they belong to the
   step that reaches them.  `pending` holds the suspended handlers with their
   local variables, `history` the handlers that have returned.

   What the user can do follows the page as rendered: the input box and the
   upload button are disabled while appState is LOADING, the example buttons
   are shown while the chat is empty, the buttons of the extracted questions
   and the feedback buttons are shown with their message.

   Date.now() is read by the steps that make a message; two such steps are
   taken to be more than a millisecond apart. *)

IDLE == "idle"

LOADING == "loading"

USER == "user"

AGENT == "agent"

KNOWLEDGE_BASE == "Knowledge Base"

WEB_SEARCH == "Web Search"

\* the texts of the messages the page writes itself
GuardrailText == <<40>>

InvalidFileText == <<41>>

AnalyzingText == <<42>>

ProcessingText == <<43>>

ExtractingText == <<44>>

FoundQuestionsText == <<45>>

NoQuestionsText == <<46>>

EmptyFileText == <<47>>

\* formatErrorMessage(error), the message of the Error a failed request throws
FormattedErrorText == <<48>>

\* chunkingResponse.error || 'Failed to chunk document'
ChunkingErrorText == <<49>>

\* the message of the error pdf.js or the file reader rejects with
UnreadableFileText == <<52>>

\* the texts the model answers with
AnswerText == <<50>>

RefinedText == <<51>>

\* a Message; a field the code leaves undefined reads as false, and an
\* undefined knowledgeSource or extractedQuestions as "" and <<>>
Message(id, text, role) ==
    [id |-> id, text |-> text, role |-> role, isError |-> FALSE,
     isLoading |-> FALSE, isRefined |-> FALSE, knowledgeSource |-> "",
     extractedQuestions |-> <<>>]

\* mutant: [...prev, message]
ReplaceByIdAppending(prev, id, message) == Append(prev, message)

\* prev.map(m => m.id === id ? message : m)
ReplaceById(prev, id, message) ==
    [i \in 1..Len(prev) |-> IF prev[i].id = id THEN message ELSE prev[i]]

\* mutant: the messages are left as they are
SetRefinedNever(prev, id, isRefined) == prev

\* prev.map(m => m.id === id ? {...m, isRefined} : m)
SetRefined(prev, id, isRefined) ==
    [i \in 1..Len(prev) |->
        IF prev[i].id = id THEN [prev[i] EXCEPT !.isRefined = isRefined]
        ELSE prev[i]]

\* messages.findIndex(m => m.id === messageId), counted from 0
FindIndex(list, messageId) ==
    IF \E i \in 1..Len(list) : list[i].id = messageId
    THEN (CHOOSE i \in 1..Len(list) :
            /\ list[i].id = messageId
            /\ \A j \in 1..(i - 1) : list[j].id # messageId) - 1
    ELSE -1

\* !text.trim(): the text is empty or white space
IsBlank(text) == \A i \in 1..Len(text) : text[i] = EmptyWord

\* one more handler may be called
MayHandle == Len(history) + Len(pending) < MaxHandlers

\* the chat has room for n more messages, the error message that a suspended
\* handleFeedback call may append counted in
HasRoom(n) ==
    Len(messages) + n
        + Cardinality({p \in 1..Len(pending) : pending[p].op = "handleFeedback"})
            <= MaxMessages

----------------------------------------------------------------------------
(* handleSendMessage *)

\* what the user types into the input box
TypedTexts == {<<>>, <<2, 3>>}

\* exampleQuestions[0]
ExampleQuestions == {PythagoreanQuery}

\* response.text of the guardrail model, and (response.text || '').trim()
\* .toLowerCase() of each
TrimLowerCase ==
    [text \in {"Yes.\n", "No"} |->
        CASE text = "Yes.\n" -> "yes."
          [] text = "No" -> "no"]

\* resultText.includes('yes')
IncludesYes(resultText) == resultText \in {"yes."}

\* what retryWithBackoff settles with in isMathQuestion
GuardrailOutcomes ==
    {Resolved(text) : text \in DOMAIN TrimLowerCase}
        \cup {Rejected(Error("503 Service Unavailable"))}

\* mutant: the answer of the guardrail model is not looked at
IsMathQuestionAlways(outcome) == TRUE

\* isMathQuestion: the answer of the model, or true when the call failed
IsMathQuestion(outcome) ==
    IF outcome.ok THEN IncludesYes(TrimLowerCase[outcome.value]) ELSE TRUE

\* the entries of knowledgeBase: the keywords and the answer of each
KnowledgeBase ==
    <<[keywords |-> {"pythagorean", "theorem", "a^2", "b^2", "c^2",
                     "right triangle"},
       answer |-> <<61>>],
      [keywords |-> {"area", "circle", "pi", "radius", "pi r^2"},  \* the last: the formula in Greek
       answer |-> <<62>>],
      [keywords |-> {"quadratic", "formula", "ax^2", "bx", "roots", "equation"},
       answer |-> <<63>>]>>

\* the keywords that occur in a word of the question texts: "pythagorean" in
\* "pythagorean", "theorem" in "theorem?"; none in "x", "y", "what", "is", "the"
KeywordsIn ==
    [w \in {2, 3, 11, 12, 13, 14, 15} |->
        CASE w = 14 -> {"pythagorean"}
          [] w = 15 -> {"theorem"}
          [] OTHER -> {}]

\* lowerCaseQuery.includes(keyword)
QueryIncludes(query, keyword) ==
    \E i \in 1..Len(query) : keyword \in KeywordsIn[query[i]]

\* the value of ragContext: null, the context of retrieveChunks, or an answer
\* of the knowledge base
NullContext == [isNull |-> TRUE, context |-> <<>>, answer |-> <<>>]

RagContext(context) == [isNull |-> FALSE, context |-> context, answer |-> <<>>]

KbContext(answer) == [isNull |-> FALSE, context |-> <<>>, answer |-> answer]

\* searchKB(query): the answer of the first entry with a keyword in the query
SearchKB(query) ==
    LET matches == {e \in 1..Len(KnowledgeBase) :
                        \E keyword \in KnowledgeBase[e].keywords :
                            QueryIncludes(query, keyword)}
    IN  IF matches = {} THEN NullContext
        ELSE KbContext(KnowledgeBase[CHOOSE e \in matches :
                                        \A f \in matches : e <= f].answer)

\* a string or null used as a condition: null and '' are falsy
IsTruthyContext(ragContext) ==
    ~ragContext.isNull /\ (ragContext.context # <<>> \/ ragContext.answer # <<>>)

\* mutant: the knowledge base is asked first
ChooseContextKeywordsFirst(ragResult, text) ==
    IF ~SearchKB(text).isNull
    THEN [ragContext |-> SearchKB(text), knowledgeSource |-> KNOWLEDGE_BASE]
    ELSE IF Len(ragResult.chunks) > 0
    THEN [ragContext |-> RagContext(ragResult.context),
          knowledgeSource |-> KNOWLEDGE_BASE]
    ELSE [ragContext |-> NullContext, knowledgeSource |-> WEB_SEARCH]

\* ragContext and knowledgeSource as handleSendMessage sets them
ChooseContext(ragResult, text) ==
    IF Len(ragResult.chunks) > 0
    THEN [ragContext |-> RagContext(ragResult.context),
          knowledgeSource |-> KNOWLEDGE_BASE]
    ELSE IF IsTruthyContext(SearchKB(text))
    THEN [ragContext |-> SearchKB(text), knowledgeSource |-> KNOWLEDGE_BASE]
    ELSE [ragContext |-> NullContext, knowledgeSource |-> WEB_SEARCH]

\* generateSolution: tools: knowledgeBaseResult ? [] : [{ googleSearch: {} }]
Tools(knowledgeBaseResult) ==
    IF IsTruthyContext(knowledgeBaseResult) THEN <<>> ELSE <<"googleSearch">>

\* generateSolution: the request, with the context in the prompt if there is one
Request(question, knowledgeBaseResult) ==
    [question |-> question,
     context |-> IF IsTruthyContext(knowledgeBaseResult)
                 THEN knowledgeBaseResult ELSE NullContext,
     tools |-> Tools(knowledgeBaseResult)]

\* handleSendMessage(text) is called and runs up to `await isMathQuestion(...)`
HandleSendMessage(text) ==
    IF IsBlank(text)
    THEN /\ history' = Append(history,
                [op |-> "handleSendMessage", began |-> Len(history),
                 text |-> text, ended |-> "returned", stored |-> <<>>])
         /\ UNCHANGED <<localStorage, call, pending, messages, appState, now>>
    ELSE LET userMessage == Message(now, text, USER)
             loadingMessage ==
                [Message(now + 1, <<>>, AGENT) EXCEPT !.isLoading = TRUE]
         IN  /\ HasRoom(2)
             /\ messages' = messages \o <<userMessage, loadingMessage>>
             /\ appState' = LOADING
             /\ pending' = Append(pending,
                    [op |-> "handleSendMessage", pc |-> "isMathQuestion",
                     began |-> Len(history), text |-> text,
                     loadingMessage |-> loadingMessage])
             /\ now' = now + 2
             /\ UNCHANGED <<localStorage, call, history>>

\* ChatInput.handleSubmit: the form is submitted
HandleSubmit ==
    /\ MayHandle
    /\ \E text \in TypedTexts :
        /\ ~IsBlank(text) /\ appState # LOADING
        /\ HandleSendMessage(text)

\* an example button is clicked; the buttons are shown while the chat is empty
ExampleClicked ==
    /\ MayHandle
    /\ Len(messages) = 0
    /\ \E q \in ExampleQuestions : HandleSendMessage(q)

\* handleQuestionSelect: the button of an extracted question is clicked
HandleQuestionSelect ==
    /\ MayHandle
    /\ \E i \in 1..Len(messages) :
       \E k \in 1..Len(messages[i].extractedQuestions) :
            HandleSendMessage(messages[i].extractedQuestions[k])

\* the event of a handleSendMessage call that has returned
SendEvent(handler, ended, final) ==
    [op |-> "handleSendMessage", began |-> handler.began,
     text |-> handler.text, ended |-> ended,
     loadingMessage |-> handler.loadingMessage, final |-> final,
     handler |-> handler, after |-> messages', stored |-> <<>>]

\* isMathQuestion resolves with false: the refusal replaces the placeholder
GuardrailRefuses ==
    \E p \in 1..Len(pending) :
        /\ pending[p].op = "handleSendMessage"
        /\ pending[p].pc = "isMathQuestion"
        /\ \E outcome \in GuardrailOutcomes :
            /\ ~IsMathQuestion(outcome)
            /\ LET loadingMessage == pending[p].loadingMessage
                   guardrailMessage ==
                        [loadingMessage EXCEPT !.isLoading = FALSE,
                                               !.text = GuardrailText]
               IN  /\ messages' = ReplaceById(messages, loadingMessage.id,
                                              guardrailMessage)
                   /\ history' = Append(history,
                        SendEvent([pending[p] EXCEPT !.pc = "returned"]
                                    @@ [guardrail |-> outcome],
                                  "refusal", guardrailMessage))
        /\ appState' = IDLE
        /\ pending' = Remove(pending, p)
        /\ UNCHANGED <<localStorage, call, now>>

\* isMathQuestion resolves with true: retrieveChunks(text, 3) reads the store
\* and returns, the context is chosen and generateSolution sends its request
GuardrailPasses ==
    \E p \in 1..Len(pending) :
        /\ pending[p].op = "handleSendMessage"
        /\ pending[p].pc = "isMathQuestion"
        /\ \E outcome \in GuardrailOutcomes :
            /\ IsMathQuestion(outcome)
            /\ \E allChunks \in {GetChunks(localStorage)} :
               \E ragResult \in {RetrieveResult(allChunks, pending[p].text,
                                                RetrieveTopK)} :
               \E chosen \in {ChooseContext(ragResult, pending[p].text)} :
                    pending' = [pending EXCEPT ![p] =
                        [pending[p] EXCEPT !.pc = "generateSolution"]
                            @@ [guardrail |-> outcome,
                                allChunks |-> allChunks,
                                ragResult |-> ragResult,
                                ragContext |-> chosen.ragContext,
                                knowledgeSource |-> chosen.knowledgeSource,
                                request |-> Request(pending[p].text,
                                                    chosen.ragContext)]]
        /\ UNCHANGED <<localStorage, call, history, messages, appState, now>>

\* generateSolution resolves: the answer replaces the placeholder
GenerateSolutionResolves ==
    \E p \in 1..Len(pending) :
        /\ pending[p].op = "handleSendMessage"
        /\ pending[p].pc = "generateSolution"
        /\ LET loadingMessage == pending[p].loadingMessage
               agentMessage ==
                    [loadingMessage EXCEPT
                        !.isLoading = FALSE, !.text = AnswerText,
                        !.knowledgeSource = pending[p].knowledgeSource]
           IN  /\ messages' = ReplaceById(messages, loadingMessage.id,
                                          agentMessage)
               /\ history' = Append(history,
                    SendEvent([pending[p] EXCEPT !.pc = "returned"],
                              "answer", agentMessage))
        /\ appState' = IDLE
        /\ pending' = Remove(pending, p)
        /\ UNCHANGED <<localStorage, call, now>>

\* generateSolution rejects: the error replaces the placeholder
GenerateSolutionRejects ==
    \E p \in 1..Len(pending) :
        /\ pending[p].op = "handleSendMessage"
        /\ pending[p].pc = "generateSolution"
        /\ LET loadingMessage == pending[p].loadingMessage
               errorMessage ==
                    [loadingMessage EXCEPT
                        !.isLoading = FALSE, !.text = FormattedErrorText,
                        !.isError = TRUE]
           IN  /\ messages' = ReplaceById(messages, loadingMessage.id,
                                          errorMessage)
               /\ history' = Append(history,
                    SendEvent([pending[p] EXCEPT !.pc = "returned"],
                              "error", errorMessage))
        /\ appState' = IDLE
        /\ pending' = Remove(pending, p)
        /\ UNCHANGED <<localStorage, call, now>>

----------------------------------------------------------------------------
(* handleFeedback *)

\* MessageBubble renders the Feedback buttons of the message
FeedbackShown(message) ==
    /\ message.role # USER /\ ~message.isError /\ ~message.isLoading
    /\ message.text # <<>>
    /\ ~message.isRefined /\ message.extractedQuestions = <<>>

\* the event of a handleFeedback call that has returned
FeedbackEvent(handler, ended) ==
    [op |-> "handleFeedback", began |-> handler.began,
     messageId |-> handler.messageId, ended |-> ended, handler |-> handler,
     before |-> handler.before, after |-> messages', stored |-> <<>>]

\* a feedback button is clicked: handleFeedback(messageId, feedback) is called
\* and returns at once or runs up to `await refineSolution(...)`
HandleFeedback ==
    /\ MayHandle
    /\ \E i \in 1..Len(messages) :
        /\ FeedbackShown(messages[i])
        /\ LET messageId == messages[i].id
               originalMessageIndex == FindIndex(messages, messageId)
           IN  IF originalMessageIndex = -1 \/ originalMessageIndex = 0
               THEN /\ history' = Append(history,
                            [op |-> "handleFeedback", began |-> Len(history),
                             messageId |-> messageId, ended |-> "returned",
                             stored |-> <<>>])
                    /\ UNCHANGED <<pending, messages, appState>>
               ELSE /\ HasRoom(1)
                    /\ appState' = LOADING
                    /\ messages' = SetRefined(messages, messageId, TRUE)
                    /\ pending' = Append(pending,
                            [op |-> "handleFeedback", pc |-> "refineSolution",
                             began |-> Len(history), messageId |-> messageId,
                             originalMessage |->
                                messages[originalMessageIndex + 1],
                             userQuestion |-> messages[originalMessageIndex].text,
                             before |-> messages])
                    /\ UNCHANGED history
    /\ UNCHANGED <<localStorage, call, now>>

\* refineSolution resolves: the refined message replaces the original one
RefineSolutionResolves ==
    \E p \in 1..Len(pending) :
        /\ pending[p].op = "handleFeedback"
        /\ LET originalMessage == pending[p].originalMessage
               refinedMessage ==
                    [originalMessage EXCEPT !.id = now, !.text = RefinedText,
                                            !.isRefined = TRUE]
           IN  messages' = ReplaceById(messages, pending[p].messageId,
                                       refinedMessage)
        /\ appState' = IDLE
        /\ history' = Append(history, FeedbackEvent(pending[p], "refined"))
        /\ pending' = Remove(pending, p)
        /\ now' = now + 2
        /\ UNCHANGED <<localStorage, call>>

\* refineSolution rejects: an error message is appended and the optimistic
\* update is reverted
RefineSolutionRejects ==
    \E p \in 1..Len(pending) :
        /\ pending[p].op = "handleFeedback"
        /\ LET errorMessage ==
                    [Message(now + 1, FormattedErrorText, AGENT)
                        EXCEPT !.isError = TRUE]
           IN  messages' = SetRefined(Append(messages, errorMessage),
                                      pending[p].messageId, FALSE)
        /\ appState' = IDLE
        /\ history' = Append(history, FeedbackEvent(pending[p], "error"))
        /\ pending' = Remove(pending, p)
        /\ now' = now + 2
        /\ UNCHANGED <<localStorage, call>>

----------------------------------------------------------------------------
(* handleFileSelect *)

\* the files the user may choose: file.name and file.type
Files == [name : {"a.txt"}, type : {"text/plain", "application/pdf", "image/png"}]

\* file.type.startsWith('text/')
StartsWithText(type) == type \in {"text/plain"}

\* the content parseFileContent resolves with
FileContents == {<<>>, <<2, 3>>}

\* the chunks the chunking service answers with for a content that is not
\* blank: MaxChunks chunks (an answer without chunks, which stores nothing, is
\* left out)
FileChunkLists ==
    {chunks \in ChunkLists(IngestTexts, MaxChunks) : Len(chunks) = MaxChunks}

\* the questions extractQuestionsFromFile resolves with; <<>> among them is ""
QuestionLists == {<<>>, <<PythagoreanQuery, <<>>>>}

\* the event of a handleFileSelect call that has returned
FileEvent(handler, ended, stored) ==
    [op |-> "handleFileSelect", began |-> handler.began,
     documentName |-> handler.documentName, ended |-> ended, stored |-> stored,
     handler |-> handler, after |-> messages']

\* FileUpload.handleFileChange: handleFileSelect(file) is called and returns at
\* once or runs up to `await parseFileContent(file)`
HandleFileSelect ==
    /\ MayHandle
    /\ HasRoom(1)
    /\ appState # LOADING
    /\ \E file \in Files :
        IF ~StartsWithText(file.type) /\ file.type # "application/pdf"
        THEN LET errorMessage ==
                    [Message(now, InvalidFileText, AGENT) EXCEPT !.isError = TRUE]
             IN  /\ messages' = Append(messages, errorMessage)
                 /\ history' = Append(history,
                        [op |-> "handleFileSelect", began |-> Len(history),
                         documentName |-> file.name, ended |-> "rejected",
                         stored |-> <<>>])
                 /\ UNCHANGED <<pending, appState>>
        ELSE LET loadingMessage ==
                    [Message(now + 1, AnalyzingText, AGENT)
                        EXCEPT !.isLoading = TRUE]
             IN  /\ messages' = Append(messages, loadingMessage)
                 /\ appState' = LOADING
                 /\ pending' = Append(pending,
                        [op |-> "handleFileSelect", pc |-> "parseFileContent",
                         began |-> Len(history), documentName |-> file.name,
                         loadingMessage |-> loadingMessage])
                 /\ UNCHANGED history
    /\ now' = now + 2
    /\ UNCHANGED <<localStorage, call>>

\* the catch and finally blocks of handleFileSelect
FileFails(p, text, stored) ==
    LET loadingMessage == pending[p].loadingMessage
        errorMessage == [loadingMessage EXCEPT !.isLoading = FALSE,
                                               !.text = text, !.isError = TRUE]
    IN  /\ messages' = ReplaceById(messages, loadingMessage.id, errorMessage)
        /\ appState' = IDLE
        /\ history' = Append(history, FileEvent(pending[p], "error", stored))
        /\ pending' = Remove(pending, p)

\* parseFileContent resolves: an empty file is an error, any other content is
\* handed to RAGService.processDocument, which runs up to `await chunkDocument`
ParseFileContentResolves ==
    \E p \in 1..Len(pending) :
        /\ pending[p].op = "handleFileSelect"
        /\ pending[p].pc = "parseFileContent"
        /\ \E content \in FileContents :
            IF IsBlank(content)
            THEN FileFails(p, EmptyFileText, <<>>)
            ELSE LET loadingMessage == pending[p].loadingMessage
                     loadingChunkMessage ==
                        [loadingMessage EXCEPT !.text = ProcessingText]
                 IN  /\ messages' = ReplaceById(messages, loadingMessage.id,
                                                loadingChunkMessage)
                     /\ pending' = [pending EXCEPT ![p] =
                            [pending[p] EXCEPT !.pc = "chunkDocument"]
                                @@ [content |-> content]]
                     /\ UNCHANGED <<appState, history>>
        /\ UNCHANGED <<localStorage, call, now>>

\* parseFileContent rejects
ParseFileContentRejects ==
    \E p \in 1..Len(pending) :
        /\ pending[p].op = "handleFileSelect"
        /\ pending[p].pc = "parseFileContent"
        /\ FileFails(p, UnreadableFileText, <<>>)
        /\ UNCHANGED <<localStorage, call, now>>

\* chunkDocument resolves with success and chunks: processDocument embeds and
\* stores them and returns, and extractQuestionsFromFile sends its request
FileChunksStored ==
    \E p \in 1..Len(pending) :
        /\ pending[p].op = "handleFileSelect"
        /\ pending[p].pc = "chunkDocument"
        /\ \E chunks \in FileChunkLists :
            LET documentName == pending[p].documentName
                chunksWithEmbeddings == ChunksWithEmbeddings(chunks, documentName)
                loadingMessage == pending[p].loadingMessage
                loadingQuestionMessage ==
                    [loadingMessage EXCEPT !.text = ExtractingText]
            IN  /\ localStorage' = StoreChunksItem(localStorage,
                                        chunksWithEmbeddings, documentName)
                /\ messages' = ReplaceById(messages, loadingMessage.id,
                                           loadingQuestionMessage)
                /\ pending' = [pending EXCEPT ![p] =
                        [pending[p] EXCEPT !.pc = "extractQuestionsFromFile"]
                            @@ [chunks |-> chunksWithEmbeddings]]
        /\ UNCHANGED <<call, history, appState, now>>

\* chunkDocument resolves with success: false or without chunks: processDocument
\* throws
FileChunkingFails ==
    \E p \in 1..Len(pending) :
        /\ pending[p].op = "handleFileSelect"
        /\ pending[p].pc = "chunkDocument"
        /\ FileFails(p, ChunkingErrorText, <<>>)
        /\ UNCHANGED <<localStorage, call, now>>

\* extractQuestionsFromFile resolves: the message lists what was found
ExtractQuestionsResolves ==
    \E p \in 1..Len(pending) :
        /\ pending[p].op = "handleFileSelect"
        /\ pending[p].pc = "extractQuestionsFromFile"
        /\ \E questions \in QuestionLists :
            LET loadingMessage == pending[p].loadingMessage
                infoMessage ==
                    [loadingMessage EXCEPT
                        !.isLoading = FALSE,
                        !.text = IF Len(questions) > 0 THEN FoundQuestionsText
                                 ELSE NoQuestionsText,
                        !.extractedQuestions = questions]
            IN  messages' = ReplaceById(messages, loadingMessage.id, infoMessage)
        /\ appState' = IDLE
        /\ history' = Append(history,
                FileEvent(pending[p], "processed", pending[p].chunks))
        /\ pending' = Remove(pending, p)
        /\ UNCHANGED <<localStorage, call, now>>

\* extractQuestionsFromFile rejects
ExtractQuestionsRejects ==
    \E p \in 1..Len(pending) :
        /\ pending[p].op = "handleFileSelect"
        /\ pending[p].pc = "extractQuestionsFromFile"
        /\ FileFails(p, FormattedErrorText, pending[p].chunks)
        /\ UNCHANGED <<localStorage, call, now>>

----------------------------------------------------------------------------
(* The page *)

\* what the user does
Clicks ==
    \/ HandleSubmit
    \/ ExampleClicked
    \/ HandleQuestionSelect
    \/ HandleFeedback
    \/ HandleFileSelect

\* an awaited call of the network or of the file reader settles
Settles ==
    \/ GuardrailRefuses
    \/ GuardrailPasses
    \/ GenerateSolutionResolves
    \/ GenerateSolutionRejects
    \/ RefineSolutionResolves
    \/ RefineSolutionRejects
    \/ ParseFileContentResolves
    \/ ParseFileContentRejects
    \/ FileChunksStored
    \/ FileChunkingFails
    \/ ExtractQuestionsResolves
    \/ ExtractQuestionsRejects

AppNext == Clicks \/ Settles

AppSpec == Init /\ [][AppNext]_vars

\* every awaited call settles
FairAppSpec == AppSpec /\ WF_vars(Settles)

----------------------------------------------------------------------------
(* Vocabulary of the properties *)

\* the last operation was retrieveChunks; the store is as that call read it
Retrieved == call.name = "retrieveChunks"

Stored == GetChunks(localStorage)

Returned == call.result.chunks

\* the scores retrieveChunks gives the stored chunks for the query of the call
Scores ==
    LET queryEmbedding == EmbeddingOf(call.query)
    IN  [i \in 1..Len(Stored) |-> ChunkSimilarity(queryEmbedding, Stored[i])]

Score(i) == Scores[i]

\* with the scores `score`, the i-th stored chunk ranks before the j-th: higher
\* score, or equal score and earlier in the store
RanksBefore(score, i, j) ==
    FLess(score[j], score[i]) \/ (score[i] = score[j] /\ i < j)

\* the ways to pick n different positions of the store, in some order
Picks(n) ==
    {idx \in [1..n -> 1..Len(Stored)] :
        \A i \in 1..n, j \in 1..n : i # j => idx[i] # idx[j]}

\* the returned chunks are the stored chunks at the positions idx
ReturnedAt(idx) == \A i \in 1..Len(Returned) : Returned[i] = Stored[idx[i]]

Words(text) == Range(Split(text))

One == FromInt(1)

MinusOne == FromInt(-1)

----------------------------------------------------------------------------
(* C1: on an empty store retrieveChunks returns exactly
   {chunks: [], context: "", totalChunks: 0}, whatever the query and topK,
   and returns it as a result, not as an error. *)
C1_EmptyStoreResult ==
    (Retrieved /\ Len(Stored) = 0) =>
        call.result = [chunks |-> <<>>, context |-> <<>>, totalChunks |-> 0]

C1_Witness ==
    /\ Retrieved /\ Len(Stored) = 0
    /\ call.query # <<>> /\ call.topK = MaxTopK
    /\ call.result.totalChunks = 0

(* C2: the returned chunks are in descending order of similarity to the query,
   and two returned chunks of equal similarity are in store order. *)
C2_RankedStable ==
    Retrieved =>
        LET score == Scores
        IN  \E idx \in Picks(Len(Returned)) :
                /\ ReturnedAt(idx)
                /\ \A i \in 1..Len(Returned), j \in 1..Len(Returned) :
                        i < j =>
                            /\ ~FLess(score[idx[i]], score[idx[j]])
                            /\ score[idx[i]] = score[idx[j]] => idx[i] < idx[j]

\* two different chunks tie on a positive score and come back in store order
C2_Witness ==
    /\ Retrieved /\ Len(Stored) = 2 /\ Len(Returned) = 2
    /\ Stored[1] # Stored[2]
    /\ Score(1) = Score(2) /\ FLess(Zero, Score(1))
    /\ Returned = Stored

(* C3: for topK >= 0 retrieveChunks returns min(topK, N) chunks, N the number of
   stored chunks, and they are the first min(topK, N) of the ranking: every
   stored chunk left out ranks behind every chunk returned. *)
C3_FirstTopK ==
    (Retrieved /\ call.topK >= 0) =>
        LET score == Scores
        IN  /\ Len(Returned) = Min(call.topK, Len(Stored))
            /\ \E idx \in Picks(Len(Returned)) :
                /\ ReturnedAt(idx)
                /\ \A i \in 1..Len(Returned), j \in 1..Len(Returned) :
                        i < j => RanksBefore(score, idx[i], idx[j])
                /\ \A i \in 1..Len(Returned), k \in 1..Len(Stored) :
                        k \notin Range(idx) => RanksBefore(score, idx[i], k)

\* topK cuts the ranking, and the chunk returned is not the first of the store
C3_Witness ==
    /\ Retrieved /\ Len(Stored) = 2 /\ call.topK = 1
    /\ Len(Returned) = 1
    /\ FLess(Score(1), Score(2))
    /\ Returned[1] = Stored[2]

(* C4: retrieval monotonicity: with the same query and store, a call with a
   larger topK returns every chunk of the call with the smaller topK, at the
   same rank. *)
C4_Monotonic ==
    Retrieved =>
        \A topK2 \in TopKs :
            call.topK <= topK2 =>
                LET more == RetrieveResult(Stored, call.query, topK2).chunks
                IN  /\ Len(Returned) <= Len(more)
                    /\ \A i \in 1..Len(Returned) : more[i] = Returned[i]

\* a call that returned one of two chunks, the other first in the store
C4_Witness ==
    /\ Retrieved /\ call.topK = 1 /\ Len(Stored) = 2
    /\ Len(Returned) = 1 /\ Returned[1] = Stored[2]
    /\ Len(RetrieveResult(Stored, call.query, 2).chunks) = 2

(* C5: a chunk whose text contains every word of the query scores strictly
   higher than a chunk whose text shares no word with the query. *)
C5_CloserTextScoresHigher ==
    Retrieved =>
        \A a \in 1..Len(Stored), b \in 1..Len(Stored) :
            ( /\ Stored[a].embedding.has /\ Stored[b].embedding.has
              /\ Words(call.query) \subseteq Words(Stored[a].text)
              /\ Words(call.query) \cap Words(Stored[b].text) = {} )
            => FLess(Score(b), Score(a))

(* C6: generateEmbedding yields vectors of one fixed dimensionality: the
   embeddings of any two stored chunks have the same length, and each is the
   vector the chunk's text yields again. *)
C6_FixedDimensionality ==
    \A i \in 1..Len(Stored), j \in 1..Len(Stored) :
        (Stored[i].embedding.has /\ Stored[j].embedding.has) =>
            /\ Len(Stored[i].embedding.vec) = Len(Stored[j].embedding.vec)
            /\ Stored[i].embedding.vec = GenerateEmbedding(Stored[i].text)

(* C7: with the theorem chunk stored first and the chunk with the calculus
   sentence second, retrieveChunks("What is the Pythagorean theorem?", 1)
   returns exactly one chunk, the theorem chunk. *)
C7_PythagoreanScenario ==
    ( /\ Retrieved /\ call.query = PythagoreanQuery /\ call.topK = 1
      /\ Len(Stored) = 2
      /\ Stored[1].text = TheoremText
      /\ Stored[2].text \in {CalculusText, TheoremText \o CalculusText} )
    => /\ Len(Returned) = 1
       /\ Returned[1] = Stored[1]

C7_Witness ==
    /\ Retrieved /\ call.query = PythagoreanQuery /\ call.topK = 1
    /\ Len(Stored) = 2
    /\ Stored[1].text = TheoremText /\ Stored[1].embedding.has
    /\ Stored[2].text = CalculusText /\ Stored[2].embedding.has
    /\ Returned = <<Stored[1]>>

(* C8: a chunk stored without an embedding is scored 0 and is not left out:
   with topK >= N the result holds every stored chunk once, a chunk without
   embedding behind none of negative score and before none of positive score. *)
C8_NoEmbeddingScoresZero ==
    (Retrieved /\ call.topK >= Len(Stored)) =>
        LET score == Scores
        IN  \E idx \in Picks(Len(Stored)) :
                /\ Len(Returned) = Len(Stored)
                /\ ReturnedAt(idx)
                /\ \A i \in 1..Len(Stored), j \in 1..Len(Stored) :
                        (i < j /\ ~Stored[idx[i]].embedding.has) =>
                            ~FLess(Zero, score[idx[j]])
                /\ \A i \in 1..Len(Stored), j \in 1..Len(Stored) :
                        (i < j /\ ~Stored[idx[j]].embedding.has) =>
                            ~FLess(score[idx[i]], Zero)

\* the chunk without embedding is first in the store and comes back second
C8_Witness ==
    /\ Retrieved /\ Len(Stored) = 2 /\ call.topK >= 2
    /\ ~Stored[1].embedding.has /\ Stored[2].embedding.has
    /\ FLess(Zero, Score(2))
    /\ Returned = <<Stored[2], Stored[1]>>

(* C9: totalChunks is the number of chunks in the store at the call, whatever
   topK is and however many chunks are returned. *)
C9_TotalChunks ==
    Retrieved => call.result.totalChunks = Len(Stored)

C9_Witness ==
    /\ Retrieved /\ Len(Stored) = 2 /\ call.topK = 1
    /\ Len(Returned) = 1 /\ call.result.totalChunks = 2

(* C10: cosineSimilarity returns a value in [-1, 1], returns 0 when the vectors
   differ in length or one has zero magnitude, and is symmetric. *)
C10_CosineContract ==
    call.name = "cosineSimilarity" =>
        /\ ~FLess(call.result, MinusOne) /\ ~FLess(One, call.result)
        /\ Len(call.vec1) # Len(call.vec2) => call.result = Zero
        /\ (\A i \in 1..Len(call.vec1) : call.vec1[i] = Zero) => call.result = Zero
        /\ (\A i \in 1..Len(call.vec2) : call.vec2[i] = Zero) => call.result = Zero
        /\ call.result = CosineSimilarity(call.vec2, call.vec1)

----------------------------------------------------------------------------
(* Vocabulary of the properties of overlapping calls *)

\* the processDocument calls that have returned { chunks, stored: true }, as
\* positions of the history
Processed ==
    {i \in 1..Len(history) : history[i].op = "processDocument" /\ ~history[i].threw}

\* the calls at positions i < j of the history overlapped in time: the later to
\* return was made before the earlier returned
Overlapped(i, j) == i < j /\ history[j].began < i

NoClear == \A i \in 1..Len(history) : history[i].op # "clearStore"

\* the chunks are in the store, in their order, from position offset + 1 on
BlockAt(offset, chunks) ==
    /\ offset + Len(chunks) <= Len(Stored)
    /\ \A k \in 1..Len(chunks) : Stored[offset + k] = chunks[k]

(* C11: when two processDocument calls for different documents overlap in time
   and both have returned (and the store was not cleared), the store holds
   every chunk of both documents, the chunks of each document next to each
   other and in the order the chunker emitted them, and neither append has
   replaced the other. *)
C11_OverlappingDocuments ==
    NoClear =>
        \A i \in Processed, j \in Processed :
            (Overlapped(i, j) /\ history[i].documentName # history[j].documentName)
            => \E oi \in 0..Len(Stored), oj \in 0..Len(Stored) :
                    /\ BlockAt(oi, history[i].stored)
                    /\ BlockAt(oj, history[j].stored)
                    /\ \/ oi + Len(history[i].stored) <= oj
                       \/ oj + Len(history[j].stored) <= oi

\* two overlapping calls, each with MaxChunks chunks, have both returned
C11_Witness ==
    /\ Len(history) = 2 /\ Processed = {1, 2}
    /\ Overlapped(1, 2)
    /\ history[1].documentName # history[2].documentName
    /\ Len(history[1].stored) = MaxChunks /\ Len(history[2].stored) = MaxChunks
    /\ Len(Stored) = 2 * MaxChunks

RECURSIVE StoreAfter(_)
\* the chunk list of the store when the first n operations of the history had
\* returned: whole documents, in the order their calls returned
StoreAfter(n) ==
    IF n = 0 THEN <<>>
    ELSE IF history[n].op = "clearStore" THEN <<>>
    ELSE StoreAfter(n - 1) \o history[n].stored

\* the states of the store between the appends of whole documents
Snapshots == {StoreAfter(n) : n \in 0..Len(history)}

(* C12: a retrieveChunks call that runs while processDocument calls run ranks
   one snapshot of the store: the chunk list it ranks holds each document's
   chunks entirely or not at all, the count and the chunks it returns are
   those of that list, and its return leaves the store as it was. *)
C12_ConsistentSnapshot ==
    /\ \A p \in 1..Len(pending) :
            pending[p].op = "retrieveChunks" => pending[p].allChunks \in Snapshots
    /\ call.name = "retrieveChunks" =>
            /\ call.allChunks \in Snapshots
            /\ call.result.totalChunks = Len(call.allChunks)
            /\ \A i \in 1..Len(Returned) : Returned[i] \in Range(call.allChunks)
            /\ Stored = StoreAfter(Len(history))

\* a document of MaxChunks chunks was stored while the retrieveChunks call was
\* suspended: the call has ranked the store without any chunk of it
C12_Witness ==
    /\ call.name = "retrieveChunks" /\ Len(history) = 3
    /\ Processed = {1, 2} /\ history[3].began = 1
    /\ Len(history[1].stored) = 1 /\ Len(history[2].stored) = MaxChunks
    /\ call.result.totalChunks = 1 /\ Len(Returned) = 1
    /\ Len(Stored) = 1 + MaxChunks

RECURSIVE StoredBefore(_)
\* the number of chunks that the operations before the i-th of the history stored
StoredBefore(i) ==
    IF i = 1 THEN 0 ELSE StoredBefore(i - 1) + Len(history[i - 1].stored)

(* C13: after successful processDocument calls (and no clear) the chunk list
   that getChunks returns is the documents' chunks in the order the calls
   returned, the chunks of each document in the order the chunker emitted
   them (sequence numbers 1, 2, ...) and under that document's name. *)
C13_InsertionOrder ==
    NoClear =>
        /\ Len(GetChunks(localStorage)) = StoredBefore(Len(history) + 1)
        /\ \A i \in Processed : \A k \in 1..Len(history[i].stored) :
                LET chunk == GetChunks(localStorage)[StoredBefore(i) + k]
                IN  /\ chunk = history[i].stored[k]
                    /\ chunk.chunk_id = k
                    /\ chunk.documentName = history[i].documentName

\* two calls, one after the other, for the same document name
C13_Witness ==
    /\ Len(history) = 2 /\ Processed = {1, 2} /\ ~Overlapped(1, 2)
    /\ history[1].documentName = history[2].documentName
    /\ Len(history[1].stored) = MaxChunks /\ Len(history[2].stored) = 1
    /\ GetChunks(localStorage)[MaxChunks + 1].chunk_id = 1

(* C14: every step leaves the stored chunk list as it is, or appends the
   whole chunk list of the processDocument call that returns behind the
   unchanged chunks, or is a clearStore that empties it: no stored chunk is
   ever changed or moved. *)
C14_AppendOrClear ==
    [][ \/ GetChunks(localStorage') = GetChunks(localStorage)
        \/ /\ call'.name = "processDocument" /\ ~call'.threw
           /\ GetChunks(localStorage') =
                    GetChunks(localStorage) \o call'.result.chunks
        \/ /\ call'.name = "clearStore"
           /\ GetChunks(localStorage') = <<>> ]_vars

\* a document of MaxChunks chunks has been appended behind a chunk of another
\* document name
C14_Witness ==
    /\ call.name = "processDocument" /\ ~call.threw
    /\ Len(call.result.chunks) = MaxChunks
    /\ Len(Stored) = MaxChunks + 1
    /\ Stored[1].documentName # call.documentName
    /\ \A k \in 1..MaxChunks : Stored[1 + k] = call.result.chunks[k]

\* when the first n operations of the history had returned, the store had been
\* cleared and no processDocument call had returned chunks since
ClearedAt(n) ==
    \E c \in 1..n :
        /\ history[c].op = "clearStore"
        /\ \A i \in (c + 1)..n : i \notin Processed

(* C15: from the return of clearStore until the next processDocument call
   returns, whatever was stored before, the store is empty: a getStats call
   returns totalChunks 0 and no documents, and a retrieveChunks call made in
   that time returns the empty result. *)
C15_ClearedStore ==
    /\ ClearedAt(Len(history)) => GetChunks(localStorage) = <<>>
    /\ (call.name = "getStats" /\ ClearedAt(Len(history) - 1)) =>
            call.result = [totalChunks |-> 0, documents |-> <<>>]
    /\ (call.name = "retrieveChunks" /\ ClearedAt(history[Len(history)].began)) =>
            call.result = [chunks |-> <<>>, context |-> <<>>, totalChunks |-> 0]

\* a document of MaxChunks chunks was stored, then the store was cleared, then
\* getStats was called
C15_Witness ==
    /\ Len(history) = 3 /\ Processed = {1}
    /\ Len(history[1].stored) = MaxChunks
    /\ history[2].op = "clearStore"
    /\ call.name = "getStats" /\ call.result.totalChunks = 0

(* C16: getStats returns the number of stored chunks as totalChunks and, as
   documents, the document names of the stored chunks, each name that has a
   stored chunk exactly once, also when a document name was uploaded more
   than once. *)
C16_Stats ==
    call.name = "getStats" =>
        LET documents == call.result.documents
        IN  /\ call.result.totalChunks = Len(Stored)
            /\ Range(documents) = {Stored[i].documentName : i \in 1..Len(Stored)}
            /\ \A i \in 1..Len(documents), j \in 1..Len(documents) :
                    documents[i] = documents[j] => i = j

\* the same document name was uploaded twice
C16_Witness ==
    /\ call.name = "getStats" /\ Len(history) = 3 /\ Processed = {1, 2}
    /\ history[1].documentName = history[2].documentName
    /\ Len(history[1].stored) = 1 /\ Len(history[2].stored) = MaxChunks
    /\ call.result.totalChunks = 1 + MaxChunks
    /\ call.result.documents = <<history[1].documentName>>

(* C17: processDocument and retrieveChunks never throw to their caller: also
   for an empty text or query and when the chunking service fails or cannot
   be reached, the call returns a well-formed, possibly empty, result. *)
C17_NeverThrows ==
    /\ call.name = "processDocument" =>
            /\ ~call.threw
            /\ call.result.stored \in BOOLEAN
            /\ Len(call.result.chunks) >= 0
    /\ call.name = "retrieveChunks" =>
            /\ Len(call.result.chunks) <= call.result.totalChunks
            /\ call.result.context = <<>> <=> call.result.chunks = <<>>

RECURSIVE EntryStart(_)
\* where the entry of the i-th returned chunk starts in the context: behind
\* the label, the text and the separator of each chunk before it
EntryStart(i) ==
    IF i = 1 THEN 1
    ELSE EntryStart(i - 1) + 1 + Len(Returned[i - 1].text) + 1

(* C19: the context is, for the returned chunks in ranked order, the label
   "[Chunk i]" and a newline (i counted from 1) followed by the text of the
   i-th chunk, with one blank line between consecutive entries and nothing
   else; it is the empty string exactly when no chunk is returned. *)
C19_ContextFormat ==
    Retrieved =>
        LET context == call.result.context
            n == Len(Returned)
        IN  /\ context = <<>> <=> n = 0
            /\ n > 0 => Len(context) = EntryStart(n) + Len(Returned[n].text)
            /\ \A i \in 1..n :
                    /\ context[EntryStart(i)] = [kind |-> "label", n |-> i]
                    /\ \A k \in 1..Len(Returned[i].text) :
                            context[EntryStart(i) + k] =
                                [kind |-> "text", n |-> Returned[i].text[k]]
                    /\ i < n =>
                            context[EntryStart(i) + Len(Returned[i].text) + 1] =
                                [kind |-> "separator", n |-> 0]

\* two chunks of different texts are returned, the second of the store first
C19_Witness ==
    /\ Retrieved /\ Len(Returned) = 2
    /\ Returned[1].text # Returned[2].text
    /\ Returned[1] = Stored[2]
    /\ Len(call.result.context) = 3 + Len(Returned[1].text) + Len(Returned[2].text)

(* C18: chunkDocument called with min_chunk_tokens > max_chunk_tokens or with
   a negative overlap_tokens is rejected by the chunking service with a
   configuration error: the result is {success: false, error}, it carries no
   chunks, and nothing is stored. *)
C18_MalformedConfiguration ==
    ( /\ call.name = "chunkDocument" /\ call.answered
      /\ \/ call.options.min_chunk_tokens > call.options.max_chunk_tokens
         \/ call.options.overlap_tokens < 0 )
    => /\ DOMAIN call.result = {"success", "error"}
       /\ call.result.success = FALSE
       /\ call.result.error = "configuration error"
       /\ localStorage = Null

\* a document of MaxUnits units, a negative overlap and budgets in order
C18_Witness ==
    /\ call.name = "chunkDocument" /\ call.answered
    /\ Len(call.units) = MaxUnits
    /\ call.options.overlap_tokens < 0
    /\ call.options.min_chunk_tokens <= call.options.max_chunk_tokens
    /\ call.result.success = FALSE

(* C20: every chunk emitted for a document, except possibly the last, has
   min_chunk_tokens <= token_length <= max_chunk_tokens, token_length being
   the number of tokens of the chunk's text, the overlap copied from the
   previous chunk included, also for the sub-chunks of a split unit. *)
C20_Budget ==
    (call.name = "chunkDocument" /\ call.result.success) =>
        \A i \in 1..(Len(call.result.chunks) - 1) :
            LET chunk == call.result.chunks[i]
            IN  /\ chunk.token_length = Len(chunk.text)
                /\ call.options.min_chunk_tokens <= chunk.token_length
                /\ chunk.token_length <= call.options.max_chunk_tokens

----------------------------------------------------------------------------
(* Vocabulary of the properties of retryWithBackoff *)

\* the message of the error marks it retryable
MarkedRetryable(error) ==
    /\ error.hasMessage
    /\ OccursIn[error.message]
            \cap {"503", "overloaded", "UNAVAILABLE", "429", "rate limit"} # {}

\* the call has returned or thrown
Settled == call.pc \in {"returned", "threw"}

\* every attempt the call may make fails with a retryable error
AlwaysOverloaded ==
    \A k \in 1..call.maxRetries :
        ~call.fn[k].ok /\ MarkedRetryable(call.fn[k].error)

(* C23: with the defaults (maxRetries = 3, initialDelay = 1000 ms) a call whose
   attempts all fail with a retryable error has waited 1 s, then 2 s, then 4 s
   between its attempts when it gives up *)
C23_Backoff ==
    (/\ call.maxRetries = DefaultMaxRetries
     /\ call.initialDelay = DefaultInitialDelay
     /\ AlwaysOverloaded
     /\ Settled)
        => call.waits = <<DefaultInitialDelay, 2 * DefaultInitialDelay,
                          4 * DefaultInitialDelay>>

\* what holds of the attempts made so far
AttemptsInOrder ==
    /\ call.calls >= 1 /\ call.calls <= call.maxRetries
    /\ \A k \in 2..call.calls :
            ~call.fn[k - 1].ok /\ MarkedRetryable(call.fn[k - 1].error)
    /\ call.pc = "returned" =>
            /\ call.fn[call.calls].ok
            /\ call.settled = <<call.fn[call.calls]>>
            /\ \A k \in 1..(call.calls - 1) : ~call.fn[k].ok
    /\ call.pc = "threw" =>
            /\ ~call.fn[call.calls].ok
            /\ call.settled = <<call.fn[call.calls]>>
            /\ MarkedRetryable(call.fn[call.calls].error) =>
                    call.calls = call.maxRetries

(* C24: retryWithBackoff calls fn at least once and at most maxRetries times;
   an attempt after the first follows an error whose message marks it
   retryable; the call returns the first successful result and otherwise
   throws the error of its last attempt; and when every call of fn settles,
   the call itself settles *)
C24_Attempts == []AttemptsInOrder /\ <>Settled

\* the third attempt succeeds after two retryable errors
C24_Witness ==
    /\ call.pc = "returned" /\ call.calls = 3
    /\ call.waits = <<DefaultInitialDelay, 2 * DefaultInitialDelay>>
    /\ call.settled = <<Resolved("second")>>

----------------------------------------------------------------------------
(* Vocabulary of the properties of the chat page *)

\* the handleSendMessage calls that have passed the guardrail, with their
\* local variables: the suspended ones and the ones that have returned
PastGuardrail ==
    {pending[p] : p \in {q \in 1..Len(pending) :
                            /\ pending[q].op = "handleSendMessage"
                            /\ pending[q].pc = "generateSolution"}}
        \cup {history[i].handler :
                    i \in {j \in 1..Len(history) :
                            /\ history[j].op = "handleSendMessage"
                            /\ history[j].ended \in {"answer", "error"}}}

\* the events of the handleSendMessage calls that have returned a message
SendEvents ==
    {history[i] : i \in {j \in 1..Len(history) :
                            /\ history[j].op = "handleSendMessage"
                            /\ history[j].ended # "returned"}}

\* the entries of the knowledge base with a keyword in the question
Matching(text) ==
    {e \in 1..Len(KnowledgeBase) :
        \E i \in 1..Len(text) : KeywordsIn[text[i]] \cap KnowledgeBase[e].keywords # {}}

(* C21: a question past the guardrail is sent to the model with the context
   of retrieveChunks if that call returned a chunk, else with the answer of
   the first knowledge-base entry a keyword of which is in the question, else
   without context; the googleSearch tool is in the request exactly when
   there is no context, and the answer is labelled 'Web Search' exactly then
   and 'Knowledge Base' otherwise *)
C21_ContextOrder ==
    /\ \A h \in PastGuardrail :
        /\ Len(h.ragResult.chunks) >= 1 =>
                h.request.context = RagContext(h.ragResult.context)
        /\ Len(h.ragResult.chunks) = 0 /\ Matching(h.text) # {} =>
                \E e \in Matching(h.text) :
                    /\ \A f \in Matching(h.text) : e <= f
                    /\ h.request.context = KbContext(KnowledgeBase[e].answer)
        /\ Len(h.ragResult.chunks) = 0 /\ Matching(h.text) = {} =>
                h.request.context = NullContext
        /\ h.request.tools = <<"googleSearch">> <=> h.request.context = NullContext
        /\ h.request.tools = <<>> <=> h.request.context # NullContext
    /\ \A event \in SendEvents :
        event.ended = "answer" =>
            /\ event.final.knowledgeSource = WEB_SEARCH
                    <=> event.handler.request.context = NullContext
            /\ event.final.knowledgeSource = KNOWLEDGE_BASE
                    <=> event.handler.request.context # NullContext

\* a question with a keyword of the knowledge base is answered with the context
\* of the stored chunks
C21_Witness ==
    \E event \in SendEvents :
        /\ event.ended = "answer" /\ Matching(event.text) # {}
        /\ Len(event.handler.ragResult.chunks) >= 1
        /\ event.handler.request.context
                = RagContext(event.handler.ragResult.context)
        /\ event.final.knowledgeSource = KNOWLEDGE_BASE

\* the guardrail model answered yes
AnsweredYes(outcome) == outcome.ok /\ outcome.value \in {"yes", "Yes.\n"}

(* C22: a question gets to retrieveChunks and generateSolution only if the
   guardrail model answered yes or the guardrail call failed, and it does get
   there in both cases; when the model answers otherwise the placeholder is
   replaced by the refusal text and neither function is called *)
C22_Guardrail ==
    /\ \A h \in PastGuardrail : AnsweredYes(h.guardrail) \/ ~h.guardrail.ok
    /\ \A event \in SendEvents :
        LET h == event.handler
        IN  IF AnsweredYes(h.guardrail) \/ ~h.guardrail.ok
            THEN event.ended # "refusal"
            ELSE /\ event.ended = "refusal"
                 /\ event.final.text = GuardrailText
                 /\ ~event.final.isLoading /\ ~event.final.isError
                 /\ \E i \in 1..Len(event.after) : event.after[i] = event.final
                 /\ \A i \in 1..Len(event.after) :
                        event.after[i].id = event.loadingMessage.id
                            => event.after[i] = event.final
                 /\ {"ragResult", "request"} \cap DOMAIN h = {}

\* a question is refused, and one passes because the guardrail call failed
C22_Witness ==
    /\ \E event \in SendEvents : event.ended = "refusal"
    /\ \E event \in SendEvents :
        /\ event.ended = "answer" /\ ~event.handler.guardrail.ok

(* C25: under every interleaving of the handlers, whenever appState is IDLE
   no message of the chat has isLoading = true *)
C25_IdleShowsNoLoading ==
    appState = IDLE => \A i \in 1..Len(messages) : ~messages[i].isLoading

\* the ids of the placeholders: Date.now() + 1 at the call of a handler
PlaceholderIds == {2 * k - 1 : k \in 1..MaxHandlers}

\* a handleSendMessage call with the placeholder `id` is suspended
Asked(id) ==
    \E p \in 1..Len(pending) :
        /\ pending[p].op = "handleSendMessage"
        /\ pending[p].loadingMessage.id = id

\* the call with the placeholder `id` has returned, and when it returned one
\* message had that id: its final message, a refusal, an answer or an error
Answered(id) ==
    \E event \in SendEvents :
        /\ event.loadingMessage.id = id
        /\ event.ended \in {"refusal", "answer", "error"}
        /\ ~event.final.isLoading
        /\ Cardinality({i \in 1..Len(event.after) : event.after[i].id = id}) = 1
        /\ \A i \in 1..Len(event.after) :
                event.after[i].id = id => event.after[i] = event.final

\* a step of handleSendMessage: a call with a text that is not blank appends
\* the user message and the placeholder and nothing else, a call with a blank
\* text leaves the page as it is, and the step that returns a message sets
\* appState to IDLE
SendStep ==
    /\ (/\ Len(pending') = Len(pending) + 1
        /\ pending'[Len(pending')].op = "handleSendMessage") =>
            LET h == pending'[Len(pending')]
            IN  /\ ~IsBlank(h.text)
                /\ Len(messages') = Len(messages) + 2
                /\ SubSeq(messages', 1, Len(messages)) = messages
                /\ messages'[Len(messages) + 1].role = USER
                /\ messages'[Len(messages) + 1].text = h.text
                /\ ~messages'[Len(messages) + 1].isLoading
                /\ messages'[Len(messages) + 2] = h.loadingMessage
                /\ h.loadingMessage.isLoading
    /\ (/\ Len(history') = Len(history) + 1
        /\ history'[Len(history')].op = "handleSendMessage") =>
            IF history'[Len(history')].ended = "returned"
            THEN /\ IsBlank(history'[Len(history')].text)
                 /\ UNCHANGED <<messages, appState, pending, localStorage>>
            ELSE /\ appState' = IDLE
                 /\ Len(messages') = Len(messages)

(* C26: a handleSendMessage call with a text that is not blank appends one
   user message and one placeholder; when the awaited calls settle, the
   placeholder is in the end replaced by one final message (refusal, answer
   or error) and appState is set to IDLE; a call with a blank text changes
   nothing *)
C26_SendCompletes ==
    /\ [][SendStep]_vars
    /\ \A id \in PlaceholderIds : Asked(id) ~> Answered(id)

\* a question has been answered and a blank question has been dropped
C26_Witness ==
    /\ appState = IDLE
    /\ \E event \in SendEvents : event.ended = "answer" /\ Answered(event.loadingMessage.id)
    /\ \E i \in 1..Len(history) :
            history[i].op = "handleSendMessage" /\ history[i].ended = "returned"

\* the events of the handleFileSelect calls that have returned
FileEvents ==
    {history[i] : i \in {j \in 1..Len(history) : history[j].op = "handleFileSelect"}}

(* C27: when handleFileSelect ends with an error message for the file (type
   rejected, content empty or unreadable, chunking failed, extraction of the
   questions failed), the call has put no chunk of the file into the store *)
C27_ErrorStoresNothing ==
    \A event \in FileEvents :
        event.ended \in {"rejected", "error"} => event.stored = <<>>

\* the similarity of the question of a call with the i-th chunk it read
ScoreOf(h, i) == ChunkSimilarity(EmbeddingOf(h.text), h.allChunks[i])

\* the context is an answer of the keyword knowledge base
IsKbContext(context) ==
    \E e \in 1..Len(KnowledgeBase) : context = KbContext(KnowledgeBase[e].answer)

(* C28: when the store holds a chunk at the call of retrieveChunks(text, 3),
   the question is sent with the context of stored chunks, without the
   googleSearch tool, and its answer is labelled 'Knowledge Base', whatever
   the similarities are; the keyword knowledge base and the web search are
   used only on an empty store *)
C28_StoreAnswersFirst ==
    /\ \A h \in PastGuardrail :
        /\ Len(h.allChunks) >= 1 =>
            /\ Len(h.ragResult.chunks) >= 1
            /\ \A i \in 1..Len(h.ragResult.chunks) :
                \E j \in 1..Len(h.allChunks) : h.ragResult.chunks[i] = h.allChunks[j]
            /\ h.request.context = RagContext(Context(h.ragResult.chunks))
            /\ h.request.tools = <<>>
            /\ h.knowledgeSource = KNOWLEDGE_BASE
        /\ (IsKbContext(h.request.context) \/ h.request.context = NullContext
                \/ h.request.tools # <<>>) => Len(h.allChunks) = 0
    /\ \A event \in SendEvents :
        event.ended = "answer" /\ Len(event.handler.allChunks) >= 1 =>
            event.final.knowledgeSource = KNOWLEDGE_BASE

\* a question of similarity 0 with every stored chunk is answered from the
\* stored chunks
C28_Witness ==
    \E event \in SendEvents :
        LET h == event.handler
        IN  /\ event.ended = "answer"
            /\ Len(h.allChunks) >= 1
            /\ \A i \in 1..Len(h.allChunks) : ScoreOf(h, i) = Zero
            /\ Len(h.ragResult.chunks) >= 1
            /\ event.final.knowledgeSource = KNOWLEDGE_BASE

\* the positions of the messages with the id
WithId(list, id) == {i \in 1..Len(list) : list[i].id = id}

\* a step of handleFeedback
FeedbackStep ==
    /\ (/\ Len(pending') = Len(pending) + 1
        /\ pending'[Len(pending')].op = "handleFeedback") =>
            LET h == pending'[Len(pending')]
            IN  /\ WithId(messages, h.messageId) # {}
                /\ 1 \notin WithId(messages, h.messageId)
                /\ Len(messages') = Len(messages)
                /\ \A i \in 1..Len(messages) :
                    messages'[i] = IF messages[i].id = h.messageId
                                   THEN [messages[i] EXCEPT !.isRefined = TRUE]
                                   ELSE messages[i]
    /\ \A p \in 1..Len(pending') :
        pending'[p].op = "handleFeedback" =>
            /\ WithId(messages', pending'[p].messageId) # {}
            /\ \A i \in WithId(messages', pending'[p].messageId) :
                    messages'[i].isRefined
    /\ (/\ Len(history') = Len(history) + 1
        /\ history'[Len(history')].op = "handleFeedback") =>
            LET event == history'[Len(history')]
                at == WithId(messages, event.messageId)
            IN  IF event.ended = "returned"
                THEN /\ at \subseteq {1}
                     /\ UNCHANGED <<messages, appState, pending, localStorage>>
                ELSE LET original == event.handler.originalMessage
                     IN  /\ at # {}
                         /\ appState' = IDLE
                         /\ IF event.ended = "error"
                            THEN /\ Len(messages') = Len(messages) + 1
                                 /\ messages'[Len(messages')].isError
                                 /\ messages'[Len(messages')].role = AGENT
                                 /\ \A i \in at :
                                        /\ messages'[i].id = event.messageId
                                        /\ messages'[i].text = original.text
                                        /\ ~messages'[i].isRefined
                                        /\ messages'[i] = original
                            ELSE /\ Len(messages') = Len(messages)
                                 /\ \A i \in at :
                                        /\ messages'[i].text = RefinedText
                                        /\ messages'[i].isRefined
                                        /\ messages'[i].role = original.role
                         /\ \A i \in 1..Len(messages) :
                                i \notin at => messages'[i] = messages[i]

(* C29: handleFeedback on a message that is missing or the first one changes
   nothing; on any other message it sets isRefined of the message and keeps
   it set while refineSolution runs; when refineSolution fails the message is
   in the list with its original text and isRefined = false and one error
   message is appended, when it succeeds the message is replaced by the
   refined text with isRefined = true; both ways appState is set to IDLE *)
C29_Feedback == [][FeedbackStep]_vars

\* a refinement has failed: the original message is back and an error message
\* is the last one
C29_Witness ==
    \E i \in 1..Len(history) :
        /\ history[i].op = "handleFeedback" /\ history[i].ended = "error"
        /\ LET event == history[i]
           IN  /\ Len(event.after) = Len(event.handler.before) + 1
               /\ event.after[Len(event.after)].isError
               /\ \E j \in 1..Len(event.after) :
                    event.after[j] = event.handler.originalMessage

====
